---------------------------- MODULE Spec2Model ----------------------------
(***************************************************************************)
(* A model of the msg-2-eml conversion engine (src/server/msg-to-eml).     *)
(*                                                                         *)
(* A JavaScript string is a sequence of UTF-16 code units (naturals); a    *)
(* Uint8Array is a sequence of bytes.  foldHeader and encodeRfc2047 are    *)
(* translated statement by statement; their loops run one iteration per    *)
(* step.                                                                   *)
(***************************************************************************)
EXTENDS Integers, Sequences, FiniteSets, TLC

VARIABLES
    \* foldHeader(headerName, headerValue, maxLineLength)
    valueTokens,      \* the pieces headerValue was put together from
    headerName, headerValue, maxLineLength,
    lines, currentLine, remaining, isFirstSegment,
    foldPc,           \* "off" | "start" | "loop" | "done"
    foldResult,       \* the physical lines of the returned string
    \* encodeRfc2047(text)
    text,
    encI,             \* i of encodeRfc2047Chunked
    encWords,         \* result of encodeRfc2047Chunked
    encPc,            \* "off" | "start" | "chunking" | "done"
    encResult,        \* the returned string
    \* convertToEml(parsed)
    parsed,           \* the ParsedMsg
    eml,              \* the document written so far, as pieces
    emlPc,            \* "off" | "start" | "structure" | "done"
    \* parseMsgFromMsg(msg) followed by convertToEml
    msg,              \* the properties of the message handle
    mapped,           \* msg.recipients().map(parseRecipient), as far as it got
    parsePc,          \* "off" | "start" | "recipients" | "parsed" | "done" | "threw"
    \* MsgToEmlConverter, the browser client
    selectedFiles, results,
    convertBtnDisabled,   \* convertBtn.disabled
    fileListShows,        \* what fileList.innerHTML was last set to
    runs                  \* the calls of convertFiles, in the order they began

foldVars == <<valueTokens, headerName, headerValue, maxLineLength,
              lines, currentLine, remaining, isFirstSegment, foldPc, foldResult>>

encVars == <<text, encI, encWords, encPc, encResult>>

emlVars == <<parsed, eml, emlPc>>

parseVars == <<msg, mapped, parsePc>>

clientVars == <<selectedFiles, results, convertBtnDisabled, fileListShows, runs>>

vars == <<foldVars, encVars, emlVars, parseVars, clientVars>>

-----------------------------------------------------------------------------
(* Characters *)

TAB == 9
LF == 10
CR == 13
SP == 32
QUOTE == 34
COMMA == 44
COLON == 58
LT == 60
EQ == 61
GT == 62
QM == 63

\* String.prototype.trim*: the white space of ECMAScript that the inputs use.
IsWhiteSpace(c) == c \in {9, 10, 11, 12, 13, 32, 160}

RECURSIVE TrimStart(_)
TrimStart(s) ==
    IF s # <<>> /\ IsWhiteSpace(Head(s)) THEN TrimStart(Tail(s)) ELSE s

RECURSIVE TrimEnd(_)
TrimEnd(s) ==
    IF s # <<>> /\ IsWhiteSpace(s[Len(s)])
    THEN TrimEnd(SubSeq(s, 1, Len(s) - 1))
    ELSE s

\* s.substring(from, to) and s.substring(from), 0-based as in the source.
Substring(s, from, to) == SubSeq(s, from + 1, IF to > Len(s) THEN Len(s) ELSE to)
SubstringFrom(s, from) == SubSeq(s, from + 1, Len(s))

\* str[i] || "" : 0 stands for the empty string a read past the end gives.
CharAt(s, i) == IF i >= 0 /\ i < Len(s) THEN s[i + 1] ELSE 0

\* The sequences ss[lo], ..., ss[hi] put end to end.
RECURSIVE FlattenRange(_, _, _)
FlattenRange(ss, lo, hi) ==
    IF lo > hi THEN <<>>
    ELSE IF lo = hi THEN ss[lo]
    ELSE FlattenRange(ss, lo, (lo + hi) \div 2) \o FlattenRange(ss, (lo + hi) \div 2 + 1, hi)

Flatten(ss) == FlattenRange(ss, 1, Len(ss))

\* lines.join(sep)
RECURSIVE Join(_, _)
Join(ss, sep) ==
    IF ss = <<>> THEN <<>>
    ELSE IF Len(ss) = 1 THEN ss[1]
    ELSE ss[1] \o sep \o Join(Tail(ss), sep)

IsInfix(p, s) ==
    \E i \in 0..(Len(s) - Len(p)) : SubSeq(s, i + 1, i + Len(p)) = p

-----------------------------------------------------------------------------
(* encoding/headers.ts: foldHeader *)

\* The loop of findFirstBreakPoint, from index i.
FirstBreakFrom(str, i) ==
    LET hits == {k \in i..(Len(str) - 1) : CharAt(str, k) \in {SP, COMMA}}
        first == CHOOSE k \in hits : \A j \in hits : k <= j
    IN  IF hits = {} THEN -1
        ELSE IF CharAt(str, first) = SP THEN first
        ELSE first + 1

FindFirstBreakPoint(str) == FirstBreakFrom(str, 0)

\* The loop of findSafeBreakPoint, from index i with the scan state so far.
RECURSIVE SafeBreakScan(_, _, _, _, _, _, _)
SafeBreakScan(str, maxPos, i, bestBreak, inEncodedWord, inAngleBracket, inQuotes) ==
    IF ~(i < maxPos /\ i < Len(str)) THEN bestBreak
    ELSE
      LET char == CharAt(str, i)
          nextChar == CharAt(str, i + 1)
          opens == char = EQ /\ nextChar = QM
          closes == ~opens /\ inEncodedWord /\ char = QM /\ nextChar = EQ
      IN  IF closes
          THEN \* inEncodedWord = false; i++; continue
               SafeBreakScan(str, maxPos, i + 2, bestBreak, FALSE, inAngleBracket, inQuotes)
          ELSE
            LET ew == IF opens THEN TRUE ELSE inEncodedWord
                an == IF char = LT /\ ~inQuotes /\ ~ew THEN TRUE
                      ELSE IF char = GT /\ inAngleBracket THEN FALSE
                      ELSE inAngleBracket
                qu == IF char = QUOTE /\ ~ew THEN ~inQuotes ELSE inQuotes
                best == IF ~ew /\ ~an /\ ~qu
                        THEN IF char = SP THEN i
                             ELSE IF char = COMMA /\ nextChar = SP THEN i + 1
                             ELSE bestBreak
                        ELSE bestBreak
                \* the scan state after this character, as one value
                next == <<best, ew, an, qu>>
            IN  IF next[1] >= -1
                THEN SafeBreakScan(str, maxPos, i + 1, next[1], next[2], next[3], next[4])
                ELSE -1

FindSafeBreakPoint(str, maxPos) ==
    IF maxPos >= Len(str) THEN Len(str)
    ELSE SafeBreakScan(str, maxPos, 0, -1, FALSE, FALSE, FALSE)

\* The loop body of foldHeader without the branch of headers.ts 47-51: a
\* remainder that has no break point is not taken whole, it stays.
FoldIterationNoFallback(st, maxLen) ==
    LET availableSpace == maxLen - Len(st.currentLine)
                                 - (IF st.isFirstSegment THEN 1 ELSE 0)
        cur0 == IF st.isFirstSegment THEN Append(st.currentLine, SP)
                ELSE st.currentLine
        rem0 == st.remaining
        breakPoint == FindSafeBreakPoint(rem0, availableSpace)
        forcedBreak == FindFirstBreakPoint(rem0)
        fits == Len(rem0) <= availableSpace
        cut == IF breakPoint <= 0 THEN forcedBreak ELSE breakPoint
    IN  IF fits
        THEN [lines |-> st.lines, currentLine |-> cur0 \o rem0,
              remaining |-> <<>>, isFirstSegment |-> st.isFirstSegment]
        ELSE IF cut > 0 /\ Len(TrimStart(SubstringFrom(rem0, cut))) > 0
        THEN [lines |-> Append(st.lines, cur0 \o TrimEnd(Substring(rem0, 0, cut))),
              currentLine |-> <<TAB>>,
              remaining |-> TrimStart(SubstringFrom(rem0, cut)),
              isFirstSegment |-> FALSE]
        ELSE IF cut > 0
        THEN [lines |-> st.lines,
              currentLine |-> cur0 \o TrimEnd(Substring(rem0, 0, cut)),
              remaining |-> <<>>, isFirstSegment |-> st.isFirstSegment]
        ELSE [lines |-> st.lines, currentLine |-> cur0,
              remaining |-> rem0, isFirstSegment |-> st.isFirstSegment]

\* One iteration of the while loop of foldHeader on the loop state
\* st = [lines, currentLine, remaining, isFirstSegment].
FoldIteration(st, maxLen) ==
    LET availableSpace == maxLen - Len(st.currentLine)
                                 - (IF st.isFirstSegment THEN 1 ELSE 0)
        cur0 == IF st.isFirstSegment THEN Append(st.currentLine, SP)
                ELSE st.currentLine
        rem0 == st.remaining
        breakPoint == FindSafeBreakPoint(rem0, availableSpace)
        forcedBreak == FindFirstBreakPoint(rem0)
        cut == IF Len(rem0) <= availableSpace THEN -1
               ELSE IF breakPoint <= 0
                    THEN IF forcedBreak > 0 /\ forcedBreak <= Len(rem0)
                         THEN forcedBreak ELSE -1
                    ELSE breakPoint
        cur1 == IF cut = -1 THEN cur0 \o rem0
                ELSE cur0 \o TrimEnd(Substring(rem0, 0, cut))
        rem1 == IF cut = -1 THEN <<>>
                ELSE TrimStart(SubstringFrom(rem0, cut))
    IN  IF Len(rem1) > 0
        THEN [lines |-> Append(st.lines, cur1), currentLine |-> <<TAB>>,
              remaining |-> rem1, isFirstSegment |-> FALSE]
        ELSE [lines |-> st.lines, currentLine |-> cur1,
              remaining |-> rem1, isFirstSegment |-> st.isFirstSegment]

RECURSIVE FoldLoop(_, _)
FoldLoop(st, maxLen) ==
    IF Len(st.remaining) > 0 THEN FoldLoop(FoldIteration(st, maxLen), maxLen)
    ELSE Append(st.lines, st.currentLine)

FullHeader(name, value) == name \o <<COLON, SP>> \o value

\* foldHeader, as the list of physical lines that the result joins by CRLF.
FoldHeaderLines(name, value, maxLen) ==
    IF Len(FullHeader(name, value)) <= maxLen
    THEN <<FullHeader(name, value)>>
    ELSE FoldLoop([lines |-> <<>>, currentLine |-> Append(name, COLON),
                   remaining |-> value, isFirstSegment |-> TRUE], maxLen)

FoldHeader(name, value, maxLen) == Join(FoldHeaderLines(name, value, maxLen), <<CR, LF>>)

-----------------------------------------------------------------------------
(* encoding/headers.ts: isAscii, encodeRfc2047, encodeRfc2047Chunked *)

IsAscii(str) == \A i \in DOMAIN str : str[i] <= 127

IsHighSurrogate(c) == c >= 55296 /\ c <= 56319      \* D800..DBFF
IsLowSurrogate(c) == c >= 56320 /\ c <= 57343       \* DC00..DFFF

\* The UTF-8 bytes of code point cp.
Utf8OfCodePoint(cp) ==
    IF cp < 128 THEN <<cp>>
    ELSE IF cp < 2048 THEN <<192 + (cp \div 64), 128 + (cp % 64)>>
    ELSE IF cp < 65536
         THEN <<224 + (cp \div 4096), 128 + ((cp \div 64) % 64), 128 + (cp % 64)>>
    ELSE <<240 + (cp \div 262144), 128 + ((cp \div 4096) % 64),
           128 + ((cp \div 64) % 64), 128 + (cp % 64)>>

\* new TextEncoder().encode(str): a surrogate pair is one code point, a
\* surrogate without its partner is encoded as U+FFFD.
TextEncode(str) ==
    Flatten([k \in DOMAIN str |->
        IF IsHighSurrogate(str[k]) /\ k < Len(str) /\ IsLowSurrogate(str[k + 1])
        THEN Utf8OfCodePoint(65536 + (str[k] - 55296) * 1024 + (str[k + 1] - 56320))
        ELSE IF IsLowSurrogate(str[k]) /\ k > 1 /\ IsHighSurrogate(str[k - 1]) THEN <<>>
        ELSE IF IsHighSurrogate(str[k]) \/ IsLowSurrogate(str[k]) THEN Utf8OfCodePoint(65533)
        ELSE Utf8OfCodePoint(str[k])])

\* The character of base64 digit v.
Base64Char(v) ==
    IF v < 26 THEN 65 + v
    ELSE IF v < 52 THEN 97 + (v - 26)
    ELSE IF v < 62 THEN 48 + (v - 52)
    ELSE IF v = 62 THEN 43 ELSE 47

\* Buffer.from(bytes).toString("base64")
Base64Encode(bytes) ==
    Flatten([g \in 1..((Len(bytes) + 2) \div 3) |->
        LET b1 == bytes[3 * g - 2]
            b2 == bytes[3 * g - 1]
            b3 == bytes[3 * g]
        IN  IF 3 * g - 2 = Len(bytes)
            THEN <<Base64Char(b1 \div 4), Base64Char((b1 % 4) * 16), EQ, EQ>>
            ELSE IF 3 * g - 1 = Len(bytes)
            THEN <<Base64Char(b1 \div 4), Base64Char((b1 % 4) * 16 + b2 \div 16),
                   Base64Char((b2 % 16) * 4), EQ>>
            ELSE <<Base64Char(b1 \div 4), Base64Char((b1 % 4) * 16 + b2 \div 16),
                   Base64Char((b2 % 16) * 4 + b3 \div 64), Base64Char(b3 % 64)>>])

EncPrefix == <<EQ, QM, 85, 84, 70, 45, 56, QM, 66, QM>>     \* =?UTF-8?B?
EncSuffix == <<QM, EQ>>                                     \* ?=
EncodedWordLimit == 75
MaxEncodedLength == EncodedWordLimit - (Len(EncPrefix) + Len(EncSuffix))

EncodedWord(str) == EncPrefix \o Base64Encode(TextEncode(str)) \o EncSuffix

\* Math.ceil((newBytes * 4) / 3)
CeilBase64Length(newBytes) == (newBytes * 4 + 2) \div 3

\* The inner while loop of encodeRfc2047Chunked: [chunk, i] when it ends.
\* It ends at the first index j from i on that is the end of the string, or
\* whose character would push the estimate over the limit with the chunk
\* not empty.
ChunkScan(str, i, chunk, chunkBytes) ==
    LET BytesUpTo(j) ==
            chunkBytes + Len(Flatten([k \in 1..(j - i + 1) |-> TextEncode(<<CharAt(str, i + k - 1)>>)]))
        stops == {j \in i..Len(str) :
                     \/ ~(j < Len(str))
                     \/ (CeilBase64Length(BytesUpTo(j)) > MaxEncodedLength
                         /\ Len(chunk) + (j - i) > 0)}
        end == IF stops = {} THEN i ELSE CHOOSE j \in stops : \A h \in stops : j <= h
    IN  [chunk |-> chunk \o SubSeq(str, i + 1, end), i |-> end]

RECURSIVE ChunkedWords(_, _)
ChunkedWords(str, i) ==
    IF ~(i < Len(str)) THEN <<>>
    ELSE LET c == ChunkScan(str, i, <<>>, 0)
         IN  <<EncodedWord(c.chunk)>> \o ChunkedWords(str, c.i)

EncodeRfc2047Chunked(str) == Join(ChunkedWords(str, 0), <<SP>>)

EncodeRfc2047(str) ==
    IF str = <<>> \/ IsAscii(str) THEN str
    ELSE IF Len(Base64Encode(TextEncode(str))) <= MaxEncodedLength
         THEN EncodedWord(str)
    ELSE EncodeRfc2047Chunked(str)

\* encodeDisplayName
EncodeDisplayName(name) ==
    IF name = <<>> THEN <<>>
    ELSE IF IsAscii(name) THEN <<QUOTE>> \o name \o <<QUOTE>>
    ELSE EncodeRfc2047(name)

-----------------------------------------------------------------------------
(* The encoded-word encoder, one chunk per step *)

RECURSIVE Repeat(_, _)
Repeat(s, n) == IF n = 0 THEN <<>> ELSE s \o Repeat(s, n - 1)

RunLength == 11
\* a, e-acute (2 bytes), U+65E5 (3 bytes), U+1F44B (a surrogate pair, 4 bytes)
EncPieces == {<<97>>, <<233>>, <<26085>>, <<55357, 56395>>,
              Repeat(<<97>>, 2 * RunLength), Repeat(<<233>>, RunLength),
              Repeat(<<26085>>, RunLength - 4)}
MaxPieces == 4

EncTexts == {Flatten(ps) : ps \in UNION {[1..n -> EncPieces] : n \in 0..MaxPieces}}

EncIdle ==
    /\ text = <<>> /\ encI = 0 /\ encWords = <<>> /\ encPc = "off" /\ encResult = <<>>

EncInit ==
    /\ text \in EncTexts
    /\ encI = 0 /\ encWords = <<>> /\ encPc = "start" /\ encResult = <<>>

\* headers.ts 167-169
EncReturnPlain ==
    /\ encPc = "start"
    /\ text = <<>> \/ IsAscii(text)
    /\ encResult' = text
    /\ encPc' = "done"
    /\ UNCHANGED <<text, encI, encWords>>
    /\ UNCHANGED <<foldVars, emlVars, parseVars>>
    /\ UNCHANGED clientVars

\* headers.ts 171-184
EncReturnSingle ==
    /\ encPc = "start"
    /\ ~(text = <<>> \/ IsAscii(text))
    /\ Len(Base64Encode(TextEncode(text))) <= MaxEncodedLength
    /\ encResult' = EncodedWord(text)
    /\ encPc' = "done"
    /\ UNCHANGED <<text, encI, encWords>>
    /\ UNCHANGED <<foldVars, emlVars, parseVars>>
    /\ UNCHANGED clientVars

\* headers.ts 188, 195-207
EncEnterChunked ==
    /\ encPc = "start"
    /\ ~(text = <<>> \/ IsAscii(text))
    /\ Len(Base64Encode(TextEncode(text))) > MaxEncodedLength
    /\ encI' = 0
    /\ encWords' = <<>>
    /\ encPc' = "chunking"
    /\ UNCHANGED <<text, encResult>>
    /\ UNCHANGED <<foldVars, emlVars, parseVars>>
    /\ UNCHANGED clientVars

\* headers.ts 209-237: one iteration of the outer loop
EncChunkStep ==
    /\ encPc = "chunking"
    /\ encI < Len(text)
    /\ LET c == ChunkScan(text, encI, <<>>, 0)
       IN  /\ encWords' = Append(encWords, EncodedWord(c.chunk))
           /\ encI' = c.i
    /\ UNCHANGED <<text, encPc, encResult>>
    /\ UNCHANGED <<foldVars, emlVars, parseVars>>
    /\ UNCHANGED clientVars

\* headers.ts 241
EncReturnJoined ==
    /\ encPc = "chunking"
    /\ ~(encI < Len(text))
    /\ encResult' = Join(encWords, <<SP>>)
    /\ encPc' = "done"
    /\ UNCHANGED <<text, encI, encWords>>
    /\ UNCHANGED <<foldVars, emlVars, parseVars>>
    /\ UNCHANGED clientVars

EncNext ==
    EncReturnPlain \/ EncReturnSingle \/ EncEnterChunked \/ EncChunkStep \/ EncReturnJoined

-----------------------------------------------------------------------------
(* The header folder, one loop iteration per step *)

\* Pieces of header values: words, separators, and the three kinds of span
\* that must not be broken.
TokWord   == <<97, 98>>                                   \* ab
TokSpace  == <<SP>>
TokComma  == <<COMMA>>
TokCommaSp == <<COMMA, SP>>
TokQuoted == <<QUOTE, 97, SP, 98, COMMA, 99, QUOTE>>      \* "a b,c"
TokAngle  == <<LT, 97, 64, 98, GT>>                       \* <a@b>
TokAngleSp == <<LT, 97, SP, 98, GT>>                      \* <a b>
TokEncoded == <<EQ, QM, 117, QM, 66, QM, 101, 65, QM, EQ>> \* =?u?B?eA?=

Tokens == {TokWord, TokSpace, TokComma, TokCommaSp, TokQuoted, TokAngle,
           TokAngleSp, TokEncoded}
GuardedTokens == {TokQuoted, TokAngle, TokAngleSp, TokEncoded}

MaxTokens == 4
FoldLimits == {6, 8, 12}
NameTo == <<84, 111>>                                     \* To

TokenSeqs == UNION {[1..n -> Tokens] : n \in 0..MaxTokens}

FoldIdle ==
    /\ valueTokens = <<>> /\ headerName = <<>> /\ headerValue = <<>>
    /\ maxLineLength = 0 /\ lines = <<>> /\ currentLine = <<>>
    /\ remaining = <<>> /\ isFirstSegment = FALSE
    /\ foldPc = "off" /\ foldResult = <<>>

FoldInit ==
    /\ valueTokens \in TokenSeqs
    /\ headerName = NameTo
    /\ headerValue = Flatten(valueTokens)
    /\ maxLineLength \in FoldLimits
    /\ lines = <<>> /\ currentLine = <<>> /\ remaining = <<>>
    /\ isFirstSegment = FALSE
    /\ foldPc = "start" /\ foldResult = <<>>

\* headers.ts 11-16: the header is short enough.
FoldReturnShort ==
    /\ foldPc = "start"
    /\ Len(FullHeader(headerName, headerValue)) <= maxLineLength
    /\ foldResult' = <<FullHeader(headerName, headerValue)>>
    /\ foldPc' = "done"
    /\ UNCHANGED <<valueTokens, headerName, headerValue, maxLineLength,
                   lines, currentLine, remaining, isFirstSegment>>
    /\ UNCHANGED <<encVars, emlVars, parseVars>>
    /\ UNCHANGED clientVars

\* headers.ts 18-21
FoldEnterLoop ==
    /\ foldPc = "start"
    /\ Len(FullHeader(headerName, headerValue)) > maxLineLength
    /\ lines' = <<>>
    /\ currentLine' = Append(headerName, COLON)
    /\ remaining' = headerValue
    /\ isFirstSegment' = TRUE
    /\ foldPc' = "loop"
    /\ UNCHANGED <<valueTokens, headerName, headerValue, maxLineLength, foldResult>>
    /\ UNCHANGED <<encVars, emlVars, parseVars>>
    /\ UNCHANGED clientVars

\* headers.ts 23-63
FoldStep ==
    /\ foldPc = "loop"
    /\ Len(remaining) > 0
    /\ LET st == FoldIteration([lines |-> lines, currentLine |-> currentLine,
                                remaining |-> remaining,
                                isFirstSegment |-> isFirstSegment], maxLineLength)
       IN  /\ lines' = st.lines
           /\ currentLine' = st.currentLine
           /\ remaining' = st.remaining
           /\ isFirstSegment' = st.isFirstSegment
    /\ UNCHANGED <<valueTokens, headerName, headerValue, maxLineLength, foldPc, foldResult>>
    /\ UNCHANGED <<encVars, emlVars, parseVars>>
    /\ UNCHANGED clientVars

\* headers.ts 65-66
FoldReturn ==
    /\ foldPc = "loop"
    /\ Len(remaining) = 0
    /\ foldResult' = Append(lines, currentLine)
    /\ foldPc' = "done"
    /\ UNCHANGED <<valueTokens, headerName, headerValue, maxLineLength,
                   lines, currentLine, remaining, isFirstSegment>>
    /\ UNCHANGED <<encVars, emlVars, parseVars>>
    /\ UNCHANGED clientVars

FoldNext == FoldReturnShort \/ FoldEnterLoop \/ FoldStep \/ FoldReturn

-----------------------------------------------------------------------------
(* Decoding, as the receiver of an encoded word does it
   (encoding/__tests__/mime-words.test.ts 56-60) *)

Base64Value(c) ==
    IF c >= 65 /\ c <= 90 THEN c - 65
    ELSE IF c >= 97 /\ c <= 122 THEN c - 71
    ELSE IF c >= 48 /\ c <= 57 THEN c + 4
    ELSE IF c = 43 THEN 62 ELSE 63

\* Buffer.from(str, "base64")
Base64Decode(str) ==
    LET Group(g) ==
            LET v1 == Base64Value(str[4 * g - 3])
                v2 == Base64Value(str[4 * g - 2])
                v3 == Base64Value(str[4 * g - 1])
                v4 == Base64Value(str[4 * g])
                b1 == v1 * 4 + v2 \div 16
                b2 == (v2 % 16) * 16 + v3 \div 4
                b3 == (v3 % 4) * 64 + v4
            IN  IF str[4 * g - 1] = EQ THEN <<b1>>
                ELSE IF str[4 * g] = EQ THEN <<b1, b2>>
                ELSE <<b1, b2, b3>>
        padded == {g \in 1..(Len(str) \div 4) : str[4 * g - 1] = EQ \/ str[4 * g] = EQ}
        last == IF padded = {} THEN Len(str) \div 4
                ELSE CHOOSE g \in padded : \A h \in padded : g <= h
    IN  Flatten([g \in 1..last |-> Group(g)])

IsContinuation(b) == b >= 128 /\ b <= 191

\* The number of continuation bytes lead byte b asks for (-1: not a lead byte).
Utf8Needed(b) ==
    IF b >= 194 /\ b <= 223 THEN 1
    ELSE IF b >= 224 /\ b <= 239 THEN 2
    ELSE IF b >= 240 /\ b <= 244 THEN 3
    ELSE -1

\* Whether b may follow lead byte lead as its first continuation byte.
FirstContinuationOk(lead, b) ==
    IF lead = 224 THEN b >= 160 /\ b <= 191
    ELSE IF lead = 237 THEN b >= 128 /\ b <= 159
    ELSE IF lead = 240 THEN b >= 144 /\ b <= 191
    ELSE IF lead = 244 THEN b >= 128 /\ b <= 143
    ELSE IsContinuation(b)

\* The code units of code point cp.
Utf16OfCodePoint(cp) ==
    IF cp < 65536 THEN <<cp>>
    ELSE <<55296 + ((cp - 65536) \div 1024), 56320 + ((cp - 65536) % 1024)>>

\* UTF-8 decoding of the sequence that starts at byte p: the code units it
\* gives, U+FFFD for an ill-formed one, and the number of bytes it takes.
Utf8Step(bytes, p) ==
    LET b1 == bytes[p]
        need == Utf8Needed(b1)
        ok(k) == p + k <= Len(bytes)
                 /\ (IF k = 1 THEN FirstContinuationOk(b1, bytes[p + 1])
                     ELSE IsContinuation(bytes[p + k]))
        good == IF need >= 1 /\ ok(1)
                THEN IF need >= 2 /\ ok(2)
                     THEN IF need >= 3 /\ ok(3) THEN 3 ELSE 2
                     ELSE 1
                ELSE 0
        point == IF need = 1 THEN (b1 - 192) * 64 + (bytes[p + 1] - 128)
              ELSE IF need = 2
                   THEN (b1 - 224) * 4096 + (bytes[p + 1] - 128) * 64 + (bytes[p + 2] - 128)
              ELSE (b1 - 240) * 262144 + (bytes[p + 1] - 128) * 4096
                   + (bytes[p + 2] - 128) * 64 + (bytes[p + 3] - 128)
    IN  IF b1 < 128 THEN [out |-> <<b1>>, used |-> 1]
        ELSE IF need >= 1 /\ good = need
             THEN [out |-> Utf16OfCodePoint(point), used |-> need + 1]
        ELSE [out |-> <<65533>>, used |-> good + 1]

\* The byte at which the sequence m sequences after the one at byte p starts.
RECURSIVE Utf8Start(_, _, _)
Utf8Start(bytes, p, m) ==
    IF m = 0 \/ p > Len(bytes) THEN p
    ELSE IF m = 1 THEN p + Utf8Step(bytes, p).used
    ELSE Utf8Start(bytes, Utf8Start(bytes, p, m \div 2), m - m \div 2)

\* UTF-8 decoding with U+FFFD for each ill-formed sequence.
Utf8Decode(bytes) ==
    LET starts == [m \in 1..Len(bytes) |-> Utf8Start(bytes, 1, m - 1)]
        count == Cardinality({m \in 1..Len(bytes) : starts[m] <= Len(bytes)})
    IN  Flatten([m \in 1..count |-> Utf8Step(bytes, starts[m]).out])

\* str.split(sep) for a separator of one character
RECURSIVE Split(_, _)
Split(str, sep) ==
    LET at == {i \in DOMAIN str : str[i] = sep}
    IN  IF at = {} THEN <<str>>
        ELSE LET p == CHOOSE i \in at : \A j \in at : i <= j
             IN  <<SubSeq(str, 1, p - 1)>> \o Split(SubSeq(str, p + 1, Len(str)), sep)

\* word.slice(10, -2) of =?UTF-8?B?<payload>?=
WordPayload(word) == SubSeq(word, Len(EncPrefix) + 1, Len(word) - Len(EncSuffix))

DecodeWords(str) ==
    LET words == Split(str, SP)
    IN  Flatten([k \in DOMAIN words |-> Utf8Decode(Base64Decode(WordPayload(words[k])))])

-----------------------------------------------------------------------------
(* The document builder: content.ts, filename.ts, parts.ts, eml.ts.
   The document is kept as a sequence of pieces: a piece is a line of fixed
   text (which holds no CR and no LF and is followed by CRLF) or text that
   comes from the message, kept as code units. *)

\* A property that is undefined (strings are sequences of code units).
Undefined == <<0 - 1>>

\* JavaScript truthiness of a string property.
Truthy(v) == v # Undefined /\ v # <<>>

HexDigit(d) == IF d < 10 THEN 48 + d ELSE 55 + d

\* n.toString(16).toUpperCase().padStart(2, "0")
RECURSIVE HexDigits(_)
HexDigits(n) == IF n < 16 THEN <<HexDigit(n)>> ELSE HexDigits(n \div 16) \o <<HexDigit(n % 16)>>
Hex2(n) == IF n < 16 THEN <<48>> \o HexDigits(n) ELSE HexDigits(n)

\* content.ts 5-9: every code unit outside 0x20-0x7E other than CR and LF, and
\* every "=", becomes "=" and the hexadecimal of the code unit.
EncodeQuotedPrintable(str) ==
    Flatten([k \in DOMAIN str |->
        IF (str[k] < 32 \/ str[k] > 126 \/ str[k] = EQ) /\ str[k] # CR /\ str[k] # LF
        THEN <<EQ>> \o Hex2(str[k])
        ELSE <<str[k]>>])

\* content.ts 1-3
EncodeBase64(data) == Base64Encode(data)

\* filename.ts 12-37 (the text after UTF-8'')
EncodeRfc2231(filename) ==
    LET bytes == TextEncode(filename)
    IN  Flatten([k \in DOMAIN bytes |->
            IF \/ (bytes[k] >= 48 /\ bytes[k] <= 57)
               \/ (bytes[k] >= 65 /\ bytes[k] <= 90)
               \/ (bytes[k] >= 97 /\ bytes[k] <= 122)
               \/ bytes[k] \in {45, 46, 95}
            THEN <<bytes[k]>>
            ELSE <<37>> \o Hex2(bytes[k])])

\* filename.ts 44-57: the value of the name / filename parameter; star is
\* TRUE for the name*= / filename*= form.
FormatFilenameParams(filename) ==
    IF IsAscii(filename)
    THEN [star |-> FALSE, value |-> <<QUOTE>> \o filename \o <<QUOTE>>]
    ELSE [star |-> TRUE, value |-> EncodeRfc2231(filename)]

\* Pieces of the document.
Line(str) == [kind |-> "line", s |-> str, b |-> "", codes |-> <<>>]
BlankLine == Line("")
Delimiter(boundary) == [kind |-> "delimiter", s |-> "", b |-> boundary, codes |-> <<>>]
CloseDelimiter(boundary) == [kind |-> "close", s |-> "", b |-> boundary, codes |-> <<>>]
MultipartType(subtype, boundary) ==
    [kind |-> "multipart", s |-> subtype, b |-> boundary, codes |-> <<>>]
\* A top-level header line: its name, and its text up to the CRLF.
Header(name, str) == [kind |-> "header", s |-> name, b |-> "", codes |-> str]
\* A line of fixed text that ends in text of the message: `${s}${codes}\r\n`
LineWith(str, tail) == [kind |-> "linewith", s |-> str, b |-> "", codes |-> tail]
\* Text of the message, with nothing added.
Raw(str) == [kind |-> "raw", s |-> "", b |-> "", codes |-> str]

\* parts.ts 5-12
GenerateTextPart(body) ==
    << Line("Content-Type: text/plain; charset=\"utf-8\""),
       Line("Content-Transfer-Encoding: quoted-printable"),
       BlankLine,
       Raw(EncodeQuotedPrintable(body)) >>

\* parts.ts 14-21
GenerateHtmlPart(bodyHtml) ==
    << Line("Content-Type: text/html; charset=\"utf-8\""),
       Line("Content-Transfer-Encoding: quoted-printable"),
       BlankLine,
       Raw(EncodeQuotedPrintable(bodyHtml)) >>

\* Fixed text with no CRLF after it.
Text(str) == [kind |-> "text", s |-> str, b |-> "", codes |-> <<>>]

BACKSLASH == 92
SEMICOLON == 59
AT == 64
LowerN == 110
ICalFirstLine == 75
ICalNextLine == 74

\* ical-utils 29-37: backslash, semicolon and comma get a backslash; CRLF,
\* LF and CR each become backslash n.
EscapeICalText(str) ==
    Flatten([k \in DOMAIN str |->
        IF str[k] \in {BACKSLASH, SEMICOLON, COMMA} THEN <<BACKSLASH, str[k]>>
        ELSE IF str[k] = LF /\ k > 1 /\ str[k - 1] = CR THEN <<>>
        ELSE IF str[k] \in {CR, LF} THEN <<BACKSLASH, LowerN>>
        ELSE <<str[k]>>])

\* ical-utils 52-59: the continuation lines, each a space and up to 74 characters
RECURSIVE FoldICalRest(_)
FoldICalRest(rest) ==
    IF rest = <<>> THEN <<>>
    ELSE <<CR, LF, SP>> \o Substring(rest, 0, ICalNextLine)
         \o FoldICalRest(SubstringFrom(rest, ICalNextLine))

\* ical-utils 43-62
FoldICalLine(line) ==
    IF Len(line) <= ICalFirstLine THEN line
    ELSE Substring(line, 0, ICalFirstLine) \o FoldICalRest(SubstringFrom(line, ICalFirstLine))

Includes(str, c) == \E k \in DOMAIN str : str[k] = c

SummaryPrefix == <<83, 85, 77, 77, 65, 82, 89, 58>>                      \* SUMMARY:
DescriptionPrefix == <<68, 69, 83, 67, 82, 73, 80, 84, 73, 79, 78, 58>>  \* DESCRIPTION:
LocationPrefix == <<76, 79, 67, 65, 84, 73, 79, 78, 58>>                 \* LOCATION:
OrganizerMailto == <<79, 82, 71, 65, 78, 73, 90, 69, 82, 58, 109, 97, 105, 108, 116, 111, 58>>
                                                                         \* ORGANIZER:mailto:
OrganizerCn == <<79, 82, 71, 65, 78, 73, 90, 69, 82, 59, 67, 78, 61>>    \* ORGANIZER;CN=
AttendeeMailto == <<65, 84, 84, 69, 78, 68, 69, 69, 58, 109, 97, 105, 108, 116, 111, 58>>
                                                                         \* ATTENDEE:mailto:
AttendeeCn == <<65, 84, 84, 69, 78, 68, 69, 69, 59, 67, 78, 61>>         \* ATTENDEE;CN=
NoReply == <<58, 109, 97, 105, 108, 116, 111, 58, 110, 111, 114, 101, 112, 108, 121,
             64, 117, 110, 107, 110, 111, 119, 110>>                     \* :mailto:noreply@unknown

\* vcalendar 162-168: the line of one attendee
AttendeeLine(attendee) ==
    IF Includes(attendee, AT)
    THEN LineWith("", FoldICalLine(AttendeeMailto \o attendee))
    ELSE LineWith("", FoldICalLine(AttendeeCn \o EscapeICalText(attendee) \o NoReply))

\* vcalendar 132-177: the lines, joined by CRLF (the last has none after it)
GenerateVCalendar(event, subject, description) ==
    << Line("BEGIN:VCALENDAR"), Line("VERSION:2.0"),
       Line("PRODID:-//msg-to-eml//NONSGML v1.0//EN"), Line("METHOD:REQUEST"),
       Line("BEGIN:VEVENT"), Line("UID:<generateUID()>"),
       Line("DTSTAMP:<now>"), Line("DTSTART:<startTime>"), Line("DTEND:<endTime>"),
       LineWith("", FoldICalLine(SummaryPrefix \o EscapeICalText(subject))) >>
    \o (IF description # <<>>
        THEN <<LineWith("", FoldICalLine(DescriptionPrefix \o EscapeICalText(description)))>>
        ELSE <<>>)
    \o (IF Truthy(event.location)
        THEN <<LineWith("", FoldICalLine(LocationPrefix \o EscapeICalText(event.location)))>>
        ELSE <<>>)
    \o (IF Truthy(event.organizer)
        THEN IF Includes(event.organizer, AT)
             THEN <<LineWith("", FoldICalLine(OrganizerMailto \o event.organizer))>>
             ELSE <<LineWith("", FoldICalLine(OrganizerCn \o EscapeICalText(event.organizer)
                                               \o NoReply))>>
        ELSE <<>>)
    \o [k \in DOMAIN event.attendees |-> AttendeeLine(event.attendees[k])]
    \o << Line("END:VEVENT"), Text("END:VCALENDAR") >>

\* parts.ts 23-31
GenerateCalendarPart(calendarEvent, subject, body) ==
    << Line("Content-Type: text/calendar; charset=\"utf-8\"; method=REQUEST"),
       Line("Content-Transfer-Encoding: 7bit"),
       BlankLine >>
    \o GenerateVCalendar(calendarEvent, subject, body)

\* parts.ts 33-57
GenerateAlternativePart(boundary, p, hasHtml, hasCalendar) ==
    << MultipartType("alternative", boundary), BlankLine, Delimiter(boundary) >>
    \o GenerateTextPart(p.body) \o <<BlankLine>>
    \o (IF hasHtml /\ Truthy(p.bodyHtml)
        THEN <<Delimiter(boundary)>> \o GenerateHtmlPart(p.bodyHtml) \o <<BlankLine>>
        ELSE <<>>)
    \o (IF hasCalendar /\ p.calendarEvent.defined
        THEN <<Delimiter(boundary)>>
             \o GenerateCalendarPart(p.calendarEvent, p.subject, p.body) \o <<BlankLine>>
        ELSE <<>>)
    \o <<CloseDelimiter(boundary)>>

\* new TextDecoder().decode(bytes): UTF-8 with U+FFFD for each ill-formed
\* sequence, and a byte order mark at the start dropped.
TextDecode(bytes) ==
    LET str == Utf8Decode(bytes)
    IN  IF Len(str) >= 1 /\ str[1] = 65279 THEN Tail(str) ELSE str

EndsWithCrLf(str) == Len(str) >= 2 /\ str[Len(str) - 1] = CR /\ str[Len(str)] = LF

Base64LineLength == 76

\* parts.ts 84-86: the base64 text in lines of 76
RECURSIVE Base64Lines(_)
Base64Lines(base64) ==
    IF base64 = <<>> THEN <<>>
    ELSE <<LineWith("", Substring(base64, 0, Base64LineLength))>>
         \o Base64Lines(SubstringFrom(base64,
                IF Len(base64) < Base64LineLength THEN Len(base64) ELSE Base64LineLength))

\* parts.ts 59-89. A message/rfc822 part ends in CRLF: when the part so far
\* does not, one is added (77-79).
GenerateAttachmentPart(att, inline) ==
    LET filenameParams == FormatFilenameParams(att.fileName)
        decoded == TextDecode(att.content)
    IN  << [kind |-> "parttype", s |-> att.contentType, b |-> "",
            codes |-> filenameParams.value] >>
        \o (IF inline /\ Truthy(att.contentId)
            THEN << LineWith("Content-ID: <", att.contentId \o <<GT>>),
                    LineWith("Content-Disposition: inline; ", filenameParams.value) >>
            ELSE << LineWith("Content-Disposition: attachment; ", filenameParams.value) >>)
        \o (IF att.contentType = "message/rfc822"
            THEN << Line("Content-Transfer-Encoding: 7bit"), BlankLine >>
                 \o (IF decoded = <<>> \/ EndsWithCrLf(decoded) THEN <<Raw(decoded)>>
                     ELSE <<Raw(decoded), Raw(<<CR, LF>>)>>)
            ELSE << Line("Content-Transfer-Encoding: base64"), BlankLine >>
                 \o Base64Lines(EncodeBase64(att.content)))

\* The code units of the header names convertToEml writes.
NameCodes(name) ==
    IF name = "From" THEN <<70, 114, 111, 109>>
    ELSE IF name = "To" THEN <<84, 111>>
    ELSE IF name = "Cc" THEN <<67, 99>>
    ELSE IF name = "Bcc" THEN <<66, 99, 99>>
    ELSE IF name = "Subject" THEN <<83, 117, 98, 106, 101, 99, 116>>
    ELSE IF name = "Date" THEN <<68, 97, 116, 101>>
    ELSE IF name = "MIME-Version" THEN <<77, 73, 77, 69, 45, 86, 101, 114, 115, 105, 111, 110>>
    ELSE IF name = "Message-ID" THEN <<77, 101, 115, 115, 97, 103, 101, 45, 73, 68>>
    ELSE IF name = "In-Reply-To" THEN <<73, 110, 45, 82, 101, 112, 108, 121, 45, 84, 111>>
    ELSE IF name = "References" THEN <<82, 101, 102, 101, 114, 101, 110, 99, 101, 115>>
    ELSE IF name = "Reply-To" THEN <<82, 101, 112, 108, 121, 45, 84, 111>>
    ELSE IF name = "X-Priority" THEN <<88, 45, 80, 114, 105, 111, 114, 105, 116, 121>>
    ELSE IF name = "Disposition-Notification-To" THEN <<68, 105, 115, 112, 111, 115, 105, 116, 105, 111, 110, 45, 78, 111, 116, 105, 102, 105, 99, 97, 116, 105, 111, 110, 45, 84, 111>>
    ELSE IF name = "Return-Receipt-To" THEN <<82, 101, 116, 117, 114, 110, 45, 82, 101, 99, 101, 105, 112, 116, 45, 84, 111>>
    ELSE <<>>

DefaultMaxLineLength == 78

\* `${foldHeader(name, value)}\r\n`
FoldedHeader(name, value) == Header(name, FoldHeader(NameCodes(name), value, DefaultMaxLineLength))

\* `${name}: ${value}\r\n`, not folded
PlainHeader(name, value) == Header(name, NameCodes(name) \o <<COLON, SP>> \o value)

\* mime/utils.ts 5-18, for the two instants of the model
FormatEmailDate(date) ==
    IF date = "deliveryTime" THEN <<84, 104, 117, 44, 32, 49, 32, 74, 97, 110, 32, 49, 57, 55, 48, 32, 48, 48, 58, 48, 48, 58, 48, 48, 32, 43, 48, 48, 48, 48>>
    ELSE <<77, 111, 110, 44, 32, 50, 32, 78, 111, 118, 32, 50, 48, 50, 54, 32, 48, 57, 58, 48, 53, 58, 48, 55, 32, 43, 48, 48, 48, 48>>

\* eml.ts 28-34
FormatRecipient(r) ==
    IF Truthy(r.name) /\ r.name # r.email
    THEN EncodeDisplayName(r.name) \o <<SP, LT>> \o r.email \o <<GT>>
    ELSE r.email

\* recipients.filter((r) => r.type === type)
RecipientsOfType(recipients, type) == SelectSeq(recipients, LAMBDA r : r.type = type)

\* toRecipients.map(formatRecipient).join(", ")
RecipientList(rs) == Join([k \in DOMAIN rs |-> FormatRecipient(rs[k])], <<COMMA, SP>>)

\* eml.ts 40-48: one address header, when it has recipients
RecipientHeader(name, recipients, type) ==
    IF RecipientsOfType(recipients, type) # <<>>
    THEN <<FoldedHeader(name, RecipientList(RecipientsOfType(recipients, type)))>>
    ELSE <<>>

\* eml.ts 56-76: an optional header, written when its field is truthy
OptionalHeader(name, value) == IF Truthy(value) THEN <<FoldedHeader(name, value)>> ELSE <<>>

\* eml.ts 36-77: the header block
EmlHeaders(p) ==
    <<FoldedHeader("From", p.from)>>
    \o RecipientHeader("To", p.recipients, "to")
    \o RecipientHeader("Cc", p.recipients, "cc")
    \o RecipientHeader("Bcc", p.recipients, "bcc")
    \o << FoldedHeader("Subject", EncodeRfc2047(p.subject)),
          PlainHeader("Date", FormatEmailDate(p.date)),
          PlainHeader("MIME-Version", <<49, 46, 48>>) >>
    \o (IF p.headers.defined
        THEN OptionalHeader("Message-ID", p.headers.messageId)
             \o OptionalHeader("In-Reply-To", p.headers.inReplyTo)
             \o OptionalHeader("References", p.headers.references)
             \o OptionalHeader("Reply-To", p.headers.replyTo)
             \o (IF p.headers.priority # Undefined
                 THEN <<PlainHeader("X-Priority", p.headers.priority)>> ELSE <<>>)
             \o OptionalHeader("Disposition-Notification-To",
                               p.headers.dispositionNotificationTo)
             \o OptionalHeader("Return-Receipt-To", p.headers.returnReceiptTo)
        ELSE <<>>)

\* eml.ts 9-18
HasHtml(p) == Truthy(p.bodyHtml)
HasCalendar(p) == p.calendarEvent.defined
InlineAttachments(p) == SelectSeq(p.attachments, LAMBDA a : Truthy(a.contentId))
RegularAttachments(p) == SelectSeq(p.attachments, LAMBDA a : ~Truthy(a.contentId))
HasInlineAttachments(p) == InlineAttachments(p) # <<>>
HasRegularAttachments(p) == RegularAttachments(p) # <<>>
HasAttachments(p) == HasInlineAttachments(p) \/ HasRegularAttachments(p)
\* eml.ts 80
NeedsAlternative(p) == HasHtml(p) \/ HasCalendar(p)

\* eml.ts 20-22: the three boundaries, named by their level
MixedBoundary == "mixedBoundary"
RelatedBoundary == "relatedBoundary"
AltBoundary == "altBoundary"

\* for (const att of atts) { eml += `--${boundary}\r\n`; eml += generateAttachmentPart(att, inline) }
AttachmentParts(atts, boundary, inline) ==
    Flatten([k \in DOMAIN atts |->
        <<Delimiter(boundary)>> \o GenerateAttachmentPart(atts[k], inline)])

\* eml.ts 84-100
EmlCase1(p) ==
    << MultipartType("mixed", MixedBoundary), BlankLine, Delimiter(MixedBoundary),
       MultipartType("related", RelatedBoundary), BlankLine, Delimiter(RelatedBoundary) >>
    \o GenerateAlternativePart(AltBoundary, p, HasHtml(p), HasCalendar(p))
    \o AttachmentParts(InlineAttachments(p), RelatedBoundary, TRUE)
    \o <<CloseDelimiter(RelatedBoundary)>>
    \o AttachmentParts(RegularAttachments(p), MixedBoundary, FALSE)
    \o <<CloseDelimiter(MixedBoundary)>>

\* eml.ts 103-111
EmlCase2(p) ==
    << MultipartType("related", RelatedBoundary), BlankLine, Delimiter(RelatedBoundary) >>
    \o GenerateAlternativePart(AltBoundary, p, HasHtml(p), HasCalendar(p))
    \o AttachmentParts(InlineAttachments(p), RelatedBoundary, TRUE)
    \o <<CloseDelimiter(RelatedBoundary)>>

\* eml.ts 114-122
EmlCase3(p) ==
    << MultipartType("mixed", MixedBoundary), BlankLine, Delimiter(MixedBoundary) >>
    \o GenerateAlternativePart(AltBoundary, p, HasHtml(p), HasCalendar(p))
    \o AttachmentParts(RegularAttachments(p), MixedBoundary, FALSE)
    \o <<CloseDelimiter(MixedBoundary)>>

\* eml.ts 125
EmlCase4(p) == GenerateAlternativePart(AltBoundary, p, HasHtml(p), HasCalendar(p))

\* eml.ts 128-137
EmlCase5(p) ==
    << MultipartType("mixed", MixedBoundary), BlankLine, Delimiter(MixedBoundary) >>
    \o GenerateTextPart(p.body) \o <<BlankLine>>
    \o AttachmentParts(p.attachments, MixedBoundary, FALSE)
    \o <<CloseDelimiter(MixedBoundary)>>

\* eml.ts 140-143
EmlCase6(p) ==
    << Line("Content-Type: text/plain; charset=\"utf-8\""),
       Line("Content-Transfer-Encoding: quoted-printable"),
       BlankLine,
       Raw(EncodeQuotedPrintable(p.body)) >>

\* eml.ts 82-144: which branch of the if / else-if chain is taken
EmlCase(p) ==
    IF HasHtml(p) /\ HasInlineAttachments(p) /\ HasRegularAttachments(p) THEN 1
    ELSE IF HasHtml(p) /\ HasInlineAttachments(p) THEN 2
    ELSE IF NeedsAlternative(p) /\ HasRegularAttachments(p) THEN 3
    ELSE IF NeedsAlternative(p) THEN 4
    ELSE IF HasAttachments(p) THEN 5
    ELSE 6

EmlBody(p) ==
    IF EmlCase(p) = 1 THEN EmlCase1(p)
    ELSE IF EmlCase(p) = 2 THEN EmlCase2(p)
    ELSE IF EmlCase(p) = 3 THEN EmlCase3(p)
    ELSE IF EmlCase(p) = 4 THEN EmlCase4(p)
    ELSE IF EmlCase(p) = 5 THEN EmlCase5(p)
    ELSE EmlCase6(p)

\* eml.ts 8-147
ConvertToEml(p) == EmlHeaders(p) \o EmlBody(p)

-----------------------------------------------------------------------------
(* convertToEml, the header block in one step and the structure in the next *)

\* types: MessageHeaders, with every field undefined
NoHeaderFields ==
    [defined |-> TRUE,
     messageId |-> Undefined, inReplyTo |-> Undefined, references |-> Undefined,
     replyTo |-> Undefined, priority |-> Undefined, sensitivity |-> Undefined,
     dispositionNotificationTo |-> Undefined, returnReceiptTo |-> Undefined,
     transportMessageHeaders |-> Undefined, threadIndex |-> Undefined,
     threadTopic |-> Undefined, receivedByEmail |-> Undefined,
     receivedByName |-> Undefined, keywords |-> <<>>,
     listHelp |-> Undefined, listSubscribe |-> Undefined, listUnsubscribe |-> Undefined]

\* parsed.headers undefined
NoHeaders == [NoHeaderFields EXCEPT !.defined = FALSE]

\* parsed.calendarEvent undefined
NoCalendarEvent ==
    [defined |-> FALSE, location |-> Undefined, organizer |-> Undefined, attendees |-> <<>>]

MessageIdText == <<60, 109, 64, 120, 62>>
AddressA == <<97, 64, 120, 46, 99, 111, 109>>
AddressB == <<98, 64, 120, 46, 99, 111, 109>>
NameA == <<65, 110, 110>>
NameB == <<66, 111, 98>>

\* The hard limit on a physical line, and a value of that length with no
\* space or comma in it.
HardLineLimit == 998
LongToken == SubSeq([i \in 1..HardLineLimit |-> 120], 1, HardLineLimit)

EmlHeaderInputs ==
    { NoHeaders,
      [NoHeaderFields EXCEPT !.messageId = MessageIdText, !.priority = <<49>>,
                             !.sensitivity = <<80, 114, 105, 118, 97, 116, 101>>],
      [NoHeaderFields EXCEPT !.messageId = MessageIdText, !.inReplyTo = MessageIdText,
                             !.references = MessageIdText, !.replyTo = AddressB,
                             !.priority = <<51>>,
                             !.dispositionNotificationTo = AddressA,
                             !.returnReceiptTo = AddressA,
                             !.threadTopic = <<84>>, !.listHelp = MessageIdText] }

EmlCalendarInputs ==
    { NoCalendarEvent,
      [defined |-> TRUE, location |-> <<82, 49>>, organizer |-> AddressA,
       attendees |-> <<AddressB, NameB>>] }

Recipient(name, email, type) == [name |-> name, email |-> email, type |-> type]

EmlRecipientInputs ==
    { <<>>,
      << Recipient(NameB, AddressB, "to"), Recipient(<<>>, AddressA, "cc"),
         Recipient(AddressB, AddressB, "bcc") >> }

\* types: Attachment
Attachment(fileName, content, contentType, contentId) ==
    [fileName |-> fileName, content |-> content, contentType |-> contentType,
     contentId |-> contentId]

PngName == <<112, 46, 112, 110, 103>>
EmlName == <<109, 46, 101, 109, 108>>

\* An embedded document, as bytes: "S: x" CRLF CRLF "y" CRLF
EmbeddedDocument == <<83, 58, 32, 120, 13, 10, 13, 10, 121, 13, 10>>

EmlAttachmentInputs ==
    { Attachment(PngName, <<137, 80, 78, 71>>, "image/png", Undefined),
      Attachment(PngName, <<137, 80, 78, 71>>, "image/png", <<105, 49>>),
      Attachment(EmlName, EmbeddedDocument, "message/rfc822", Undefined),
      \* a document whose body has a bare LF and no CRLF at its end
      Attachment(EmlName, <<83, 58, 32, 120, 13, 10, 13, 10, 121, 10, 122>>,
                 "message/rfc822", Undefined),
      \* a document with an 8-bit byte (e-acute in ISO-8859-1)
      Attachment(EmlName, <<83, 58, 32, 233, 13, 10, 13, 10, 121, 13, 10>>,
                 "message/rfc822", Undefined),
      \* a document that starts with a byte order mark
      Attachment(EmlName, <<239, 187, 191>> \o EmbeddedDocument,
                 "message/rfc822", Undefined) }

MaxAttachments == 2

EmlAttachmentSeqs == UNION {[1..n -> EmlAttachmentInputs] : n \in 0..MaxAttachments}

\* types: ParsedMsg
ParsedMsgs ==
    [subject : {<<83>>, <<233>>, <<83, LF, 84>>},
     from : {AddressA},
     sender : {Undefined, AddressB},
     recipients : EmlRecipientInputs,
     date : {"deliveryTime"},
     body : {<<>>, <<72, 105>>, <<97, LF, 98>>},
     bodyHtml : {Undefined, <<60, 98, 62>>},
     attachments : EmlAttachmentSeqs,
     headers : EmlHeaderInputs,
     calendarEvent : EmlCalendarInputs]
    \cup
    \* messages with a References value that no line can hold
    [subject : {<<83>>}, from : {AddressA}, sender : {Undefined},
     recipients : EmlRecipientInputs, date : {"deliveryTime"},
     body : {<<>>, <<72, 105>>}, bodyHtml : {Undefined}, attachments : {<<>>},
     headers : {[NoHeaderFields EXCEPT !.references = LongToken]},
     calendarEvent : {NoCalendarEvent}]

EmlIdle == parsed = <<>> /\ eml = <<>> /\ emlPc = "off"

EmlInit == parsed \in ParsedMsgs /\ eml = <<>> /\ emlPc = "start"

ParseIdle == msg = <<>> /\ mapped = <<>> /\ parsePc = "off"

\* No page is open.
ClientIdle ==
    /\ selectedFiles = <<>> /\ results = <<>> /\ convertBtnDisabled = TRUE
    /\ fileListShows = "nothing" /\ runs = <<>>

\* eml.ts 36-77
EmlWriteHeaders ==
    /\ emlPc = "start"
    /\ eml' = EmlHeaders(parsed)
    /\ emlPc' = "structure"
    /\ UNCHANGED <<parsed, foldVars, encVars, parseVars>>
    /\ UNCHANGED clientVars

\* eml.ts 82-100
EmlWriteCase1 ==
    /\ emlPc = "structure"
    /\ HasHtml(parsed) /\ HasInlineAttachments(parsed) /\ HasRegularAttachments(parsed)
    /\ eml' = eml \o EmlCase1(parsed)
    /\ emlPc' = "done"
    /\ UNCHANGED <<parsed, foldVars, encVars, parseVars>>
    /\ UNCHANGED clientVars

\* eml.ts 101-111
EmlWriteCase2 ==
    /\ emlPc = "structure"
    /\ ~(HasHtml(parsed) /\ HasInlineAttachments(parsed) /\ HasRegularAttachments(parsed))
    /\ HasHtml(parsed) /\ HasInlineAttachments(parsed)
    /\ eml' = eml \o EmlCase2(parsed)
    /\ emlPc' = "done"
    /\ UNCHANGED <<parsed, foldVars, encVars, parseVars>>
    /\ UNCHANGED clientVars

\* eml.ts 112-122
EmlWriteCase3 ==
    /\ emlPc = "structure"
    /\ ~(HasHtml(parsed) /\ HasInlineAttachments(parsed))
    /\ NeedsAlternative(parsed) /\ HasRegularAttachments(parsed)
    /\ eml' = eml \o EmlCase3(parsed)
    /\ emlPc' = "done"
    /\ UNCHANGED <<parsed, foldVars, encVars, parseVars>>
    /\ UNCHANGED clientVars

\* eml.ts 123-125
EmlWriteCase4 ==
    /\ emlPc = "structure"
    /\ ~(HasHtml(parsed) /\ HasInlineAttachments(parsed))
    /\ ~(NeedsAlternative(parsed) /\ HasRegularAttachments(parsed))
    /\ NeedsAlternative(parsed)
    /\ eml' = eml \o EmlCase4(parsed)
    /\ emlPc' = "done"
    /\ UNCHANGED <<parsed, foldVars, encVars, parseVars>>
    /\ UNCHANGED clientVars

\* eml.ts 126-137
EmlWriteCase5 ==
    /\ emlPc = "structure"
    /\ ~NeedsAlternative(parsed)
    /\ HasAttachments(parsed)
    /\ eml' = eml \o EmlCase5(parsed)
    /\ emlPc' = "done"
    /\ UNCHANGED <<parsed, foldVars, encVars, parseVars>>
    /\ UNCHANGED clientVars

\* eml.ts 138-144
EmlWriteCase6 ==
    /\ emlPc = "structure"
    /\ ~NeedsAlternative(parsed)
    /\ ~HasAttachments(parsed)
    /\ eml' = eml \o EmlCase6(parsed)
    /\ emlPc' = "done"
    /\ UNCHANGED <<parsed, foldVars, encVars, parseVars>>
    /\ UNCHANGED clientVars

EmlNext ==
    \/ EmlWriteHeaders
    \/ EmlWriteCase1 \/ EmlWriteCase2 \/ EmlWriteCase3
    \/ EmlWriteCase4 \/ EmlWriteCase5 \/ EmlWriteCase6

-----------------------------------------------------------------------------
(* Reading a message: sender.ts, parseRecipient, parseAttachment, parseMsgFromMsg.
   A property that is a number is {} when undefined and {n} when it is n. *)

\* toLowerCase, for the ASCII letters
ToLowerCase(str) == [k \in DOMAIN str |-> IF str[k] >= 65 /\ str[k] <= 90 THEN str[k] + 32 ELSE str[k]]

Trim(str) == TrimStart(TrimEnd(str))

\* a || b for string properties
OrElse(a, b) == IF Truthy(a) THEN a ELSE b

\* sender.ts 35-63
ExtractActualSenderEmail(m) == OrElse(m.senderSmtpAddress, m.senderEmailAddress)
ExtractActualSenderName(m) == m.senderName
ExtractRepresentedSenderEmail(m) ==
    OrElse(m.sentRepresentingSmtpAddress, m.sentRepresentingEmailAddress)
ExtractRepresentedSenderName(m) == m.sentRepresentingName

\* sender.ts 134-136
NormalizeEmail(email) == Trim(ToLowerCase(OrElse(email, <<>>)))

\* isOnBehalfOfScenario with the addresses compared as they are
IsOnBehalfOfScenarioExact(actual, represented) ==
    IF ~Truthy(actual.email) /\ ~Truthy(actual.name) THEN FALSE
    ELSE IF ~Truthy(represented.email) /\ ~Truthy(represented.name) THEN FALSE
    ELSE IF Truthy(actual.email) /\ Truthy(represented.email)
         THEN actual.email # represented.email
    ELSE IF Truthy(actual.name) /\ Truthy(represented.name)
         THEN actual.name # represented.name
    ELSE TRUE

\* sender.ts 142-169
IsOnBehalfOfScenario(actual, represented) ==
    IF ~Truthy(actual.email) /\ ~Truthy(actual.name) THEN FALSE
    ELSE IF ~Truthy(represented.email) /\ ~Truthy(represented.name) THEN FALSE
    ELSE IF Truthy(actual.email) /\ Truthy(represented.email)
         THEN NormalizeEmail(actual.email) # NormalizeEmail(represented.email)
    ELSE IF Truthy(actual.name) /\ Truthy(represented.name)
            /\ ~Truthy(actual.email) /\ ~Truthy(represented.email)
         THEN Trim(actual.name) # Trim(represented.name)
    ELSE IF (Truthy(actual.email) /\ ~Truthy(represented.email))
            \/ (~Truthy(actual.email) /\ Truthy(represented.email))
         THEN TRUE
    ELSE FALSE

\* An optional header field: the property when it is truthy.
FieldOf(value) == IF Truthy(value) THEN value ELSE Undefined

\* transportHeaders.replace(/\r?\n/g, "\n").split("\n")
WithoutCrBeforeLf(str) ==
    LET pairs == [k \in DOMAIN str |-> <<str[k], IF k < Len(str) THEN str[k + 1] ELSE 0>>]
        kept == SelectSeq(pairs, LAMBDA pair : ~(pair[1] = CR /\ pair[2] = LF))
    IN  [k \in DOMAIN kept |-> kept[k][1]]

HeaderBlockLines(transportHeaders) == Split(WithoutCrBeforeLf(transportHeaders), LF)

\* line.match(new RegExp(`^${headerName}:\\s*(.*)`, "i"))
MatchesHeader(line, fieldName) ==
    /\ Len(line) > Len(fieldName)
    /\ ToLowerCase(SubSeq(line, 1, Len(fieldName))) = ToLowerCase(fieldName)
    /\ line[Len(fieldName) + 1] = COLON

\* The loop of extractHeaderValue (content.ts 115-127) and of
\* parseFromTransportHeaders (sender.ts 82-97), from line k.
RECURSIVE CollectHeaderValue(_, _, _, _, _)
CollectHeaderValue(blockLines, fieldName, k, found, value) ==
    IF k > Len(blockLines) THEN [found |-> found, value |-> value]
    ELSE IF ~found
         THEN IF MatchesHeader(blockLines[k], fieldName)
              THEN CollectHeaderValue(blockLines, fieldName, k + 1, TRUE,
                       TrimStart(SubSeq(blockLines[k], Len(fieldName) + 2, Len(blockLines[k]))))
              ELSE CollectHeaderValue(blockLines, fieldName, k + 1, FALSE, value)
    ELSE IF blockLines[k] # <<>> /\ blockLines[k][1] \in {SP, TAB}
         THEN CollectHeaderValue(blockLines, fieldName, k + 1, TRUE,
                                 value \o <<SP>> \o Trim(blockLines[k]))
    ELSE [found |-> found, value |-> value]

\* content.ts 110-129: the value of the header, folded lines joined, or undefined
ExtractHeaderValue(transportHeaders, fieldName) ==
    LET got == CollectHeaderValue(HeaderBlockLines(transportHeaders), fieldName, 1, FALSE, <<>>)
    IN  IF got.found /\ Trim(got.value) # <<>> THEN Trim(got.value) ELSE Undefined

APOSTROPHE == 39

\* rawName.replace(/^["']|["']$/g, "")
StripQuotes(str) ==
    LET front == IF str # <<>> /\ str[1] \in {QUOTE, APOSTROPHE} THEN Tail(str) ELSE str
    IN  IF front # <<>> /\ front[Len(front)] \in {QUOTE, APOSTROPHE}
        THEN SubSeq(front, 1, Len(front) - 1) ELSE front

\* One address of a header value, already trimmed: `Name <email>`, a bare
\* email or a bare name (sender.ts 105-131, content.ts 82-101). The pattern
\* /^(.*?)\s*<([^>]+)>\s*$/ takes the first "<" after which the only ">" is
\* the last character.
ParseAddressEntry(str) ==
    LET last == Len(str)
        gts == {j \in 1..(last - 1) : str[j] = GT}
        prevGt == IF gts = {} THEN 0 ELSE CHOOSE j \in gts : \A g \in gts : g <= j
        lts == {i \in (prevGt + 1)..(last - 2) : str[i] = LT}
        open == CHOOSE i \in lts : \A l \in lts : i <= l
    IN  IF str # <<>> /\ str[last] = GT /\ lts # {}
        THEN [email |-> Trim(SubSeq(str, open + 1, last - 1)),
              name |-> FieldOf(Trim(StripQuotes(TrimEnd(SubSeq(str, 1, open - 1)))))]
        ELSE IF Includes(str, AT) THEN [email |-> str, name |-> Undefined]
        ELSE [email |-> Undefined, name |-> str]

\* sender.ts 74-132: the identity of the From: line, or [found |-> FALSE]
ParseFromTransportHeaders(transportHeaders) ==
    LET fromValue == ExtractHeaderValue(transportHeaders, <<102, 114, 111, 109>>)
    IN  IF fromValue = Undefined
        THEN [found |-> FALSE, email |-> Undefined, name |-> Undefined]
        ELSE [found |-> TRUE, email |-> ParseAddressEntry(fromValue).email,
              name |-> ParseAddressEntry(fromValue).name]

\* sender.ts 182-222
ExtractSenderInfoWith(m, transportMessageHeaders) ==
    LET actualSender == [email |-> ExtractActualSenderEmail(m),
                         name |-> ExtractActualSenderName(m)]
        representedSender == [email |-> ExtractRepresentedSenderEmail(m),
                              name |-> ExtractRepresentedSenderName(m)]
        bestEmail == OrElse(actualSender.email, representedSender.email)
        bestName == OrElse(actualSender.name, representedSender.name)
        fromTransport == ParseFromTransportHeaders(transportMessageHeaders)
    IN  IF IsOnBehalfOfScenario(actualSender, representedSender)
        THEN [from |-> representedSender, sender |-> actualSender, isOnBehalfOf |-> TRUE]
        ELSE IF ~Truthy(bestEmail) /\ ~Truthy(bestName) /\ Truthy(transportMessageHeaders)
                /\ fromTransport.found
        THEN [from |-> [email |-> fromTransport.email, name |-> fromTransport.name],
              sender |-> [email |-> Undefined, name |-> Undefined],
              isOnBehalfOf |-> FALSE]
        ELSE [from |-> [email |-> bestEmail, name |-> bestName],
              sender |-> [email |-> Undefined, name |-> Undefined],
              isOnBehalfOf |-> FALSE]

\* part_010 235: extractSenderInfo(msg), the second argument left undefined
ExtractSenderInfo(m) == ExtractSenderInfoWith(m, Undefined)

UnknownAddress == <<117, 110, 107, 110, 111, 119, 110, 64, 117, 110, 107, 110, 111, 119, 110, 46, 99, 111, 109>>

\* sender.ts 235-241
FormatSender(email, name) ==
    IF Truthy(name) /\ Truthy(email) /\ name # email
    THEN EncodeDisplayName(name) \o <<SP, LT>> \o email \o <<GT>>
    ELSE IF Truthy(email) THEN email
    ELSE IF Truthy(name) THEN name
    ELSE UnknownAddress

\* part_004 5-9
GetRecipientType(type) == IF type = {2} THEN "cc" ELSE IF type = {3} THEN "bcc" ELSE "to"

\* part_004 17-31
MapToXPriority(priority, importance) ==
    IF priority = {1} THEN {1}
    ELSE IF priority = {0} THEN {3}
    ELSE IF priority = {0 - 1} THEN {5}
    ELSE IF importance = {2} THEN {1}
    ELSE IF importance = {1} THEN {3}
    ELSE IF importance = {0} THEN {5}
    ELSE {}

\* part_010 215-229
MapSensitivity(sensitivityValue) ==
    IF sensitivityValue = {1} THEN <<80, 101, 114, 115, 111, 110, 97, 108>>
    ELSE IF sensitivityValue = {2} THEN <<80, 114, 105, 118, 97, 116, 101>>
    ELSE IF sensitivityValue = {3} THEN <<67, 111, 109, 112, 97, 110, 121, 45, 67, 111, 110, 102, 105, 100, 101, 110, 116, 105, 97, 108>>
    ELSE Undefined

DOT == 46

\* part_010 829-847: the MIME type the extension of the file name stands for
GetMimeType(fileName) ==
    LET pieces == Split(fileName, DOT)
        ext == ToLowerCase(pieces[Len(pieces)])
    IN
        IF ext = <<112, 100, 102>> THEN "application/pdf"
        ELSE IF ext = <<100, 111, 99>> THEN "application/msword"
        ELSE IF ext = <<100, 111, 99, 120>> THEN "application/vnd.openxmlformats-officedocument.wordprocessingml.document"
        ELSE IF ext = <<120, 108, 115>> THEN "application/vnd.ms-excel"
        ELSE IF ext = <<120, 108, 115, 120>> THEN "application/vnd.openxmlformats-officedocument.spreadsheetml.sheet"
        ELSE IF ext = <<112, 110, 103>> THEN "image/png"
        ELSE IF ext = <<106, 112, 103>> THEN "image/jpeg"
        ELSE IF ext = <<106, 112, 101, 103>> THEN "image/jpeg"
        ELSE IF ext = <<103, 105, 102>> THEN "image/gif"
        ELSE IF ext = <<116, 120, 116>> THEN "text/plain"
        ELSE IF ext = <<104, 116, 109, 108>> THEN "text/html"
        ELSE IF ext = <<122, 105, 112>> THEN "application/zip"
        ELSE "application/octet-stream"

\* The second argument parseRecipient is called with: nothing, a
\* TransportRecipients object, or, under Array.prototype.map, the index.
NoArgument == [kind |-> "undefined", n |-> 0, to |-> <<>>, cc |-> <<>>, bcc |-> <<>>]
IndexArgument(i) == [kind |-> "number", n |-> i, to |-> <<>>, cc |-> <<>>, bcc |-> <<>>]
TransportRecipients(to, cc, bcc) == [kind |-> "object", n |-> 0, to |-> to, cc |-> cc, bcc |-> bcc]

\* content.ts 46-72: the parts of a header value between the commas that
\* are outside angle brackets and quotes, from character k.
RECURSIVE AddressParts(_, _, _, _, _)
AddressParts(headerText, k, current, inAngle, inQuote) ==
    IF k > Len(headerText)
    THEN IF Trim(current) # <<>> THEN <<Trim(current)>> ELSE <<>>
    ELSE LET char == headerText[k]
             quote == IF char = QUOTE /\ inAngle = 0 THEN ~inQuote ELSE inQuote
             angle == IF char = QUOTE /\ inAngle = 0 THEN inAngle
                      ELSE IF char = LT /\ ~inQuote THEN inAngle + 1
                      ELSE IF char = GT /\ ~inQuote
                           THEN (IF inAngle > 0 THEN inAngle - 1 ELSE 0)
                      ELSE inAngle
         IN  IF char = COMMA /\ angle = 0 /\ ~quote
             THEN <<Trim(current)>> \o AddressParts(headerText, k + 1, <<>>, angle, quote)
             ELSE AddressParts(headerText, k + 1, Append(current, char), angle, quote)

\* content.ts 42-104
ParseAddressHeaderValue(headerText) ==
    IF Trim(headerText) = <<>> THEN <<>>
    ELSE LET parts == SelectSeq(AddressParts(headerText, 1, <<>>, 0, FALSE),
                                LAMBDA part : part # <<>>)
         IN  [k \in DOMAIN parts |-> ParseAddressEntry(parts[k])]

\* content.ts 134-144
ParseRecipientsFromTransportHeaders(transportHeaders) ==
    LET Bucket(fieldName) ==
            IF Truthy(ExtractHeaderValue(transportHeaders, fieldName))
            THEN ParseAddressHeaderValue(ExtractHeaderValue(transportHeaders, fieldName))
            ELSE <<>>
    IN  TransportRecipients(Bucket(<<84, 111>>), Bucket(<<67, 99>>), Bucket(<<66, 99, 99>>))

\* Truthiness of that argument.
ArgumentTruthy(tr) == tr.kind = "object" \/ (tr.kind = "number" /\ tr.n # 0)

\* content.ts 163-169: the e-mail address of the first entry with this name
FirstMatch(addresses, normalizedName) ==
    LET hits == {k \in DOMAIN addresses :
                    /\ Truthy(addresses[k].email) /\ Truthy(addresses[k].name)
                    /\ Trim(ToLowerCase(addresses[k].name)) = normalizedName}
    IN  IF hits = {} THEN Undefined
        ELSE addresses[CHOOSE k \in hits : \A j \in hits : k <= j].email

\* content.ts 150-172. On a number, transportRecipients.to is undefined and
\* the spread of 161 throws a TypeError.
ResolveEmailFromTransportHeaders(displayName, recipientType, tr) ==
    IF ~Truthy(displayName) THEN [threw |-> FALSE, email |-> Undefined]
    ELSE IF tr.kind # "object" THEN [threw |-> TRUE, email |-> Undefined]
    ELSE LET normalizedName == Trim(ToLowerCase(displayName))
             typedAddresses == tr[recipientType]
             allAddresses == tr.to \o tr.cc \o tr.bcc
             typed == FirstMatch(typedAddresses, normalizedName)
         IN  [threw |-> FALSE,
              email |-> IF typed # Undefined THEN typed
                        ELSE FirstMatch(allAddresses, normalizedName)]

\* content.ts 174-189: [threw, value]
ParseRecipient(recipient, tr) ==
    LET name == OrElse(recipient.displayName, <<>>)
        type == GetRecipientType(recipient.recipientType)
        direct == OrElse(recipient.smtpAddress, recipient.emailAddress)
        resolved == IF ~Truthy(direct) /\ Truthy(name) /\ ArgumentTruthy(tr)
                    THEN ResolveEmailFromTransportHeaders(name, type, tr)
                    ELSE [threw |-> FALSE, email |-> direct]
    IN  [threw |-> resolved.threw,
         value |-> [name |-> name,
                    email |-> IF resolved.email = Undefined THEN name ELSE resolved.email,
                    type |-> type]]

\* part_009 13-32: <<>> for null, else <<the attachment>>
ParseAttachment(attachment) ==
    LET fileName == OrElse(attachment.longFilename, attachment.filename)
    IN  IF ~Truthy(fileName) THEN <<>>
        ELSE IF attachment.content = <<>> THEN <<>>
        ELSE << Attachment(fileName, attachment.content,
                           IF attachment.mimeTag # "" THEN attachment.mimeTag
                           ELSE GetMimeType(fileName),
                           IF Truthy(attachment.contentId) THEN attachment.contentId
                           ELSE Undefined) >>

\* part_000 112-118
ParseAttendeeString(attendeesStr) ==
    IF ~Truthy(attendeesStr) THEN <<>>
    ELSE LET parts == Split(attendeesStr, SEMICOLON)
         IN  SelectSeq([k \in DOMAIN parts |-> Trim(parts[k])], LAMBDA a : Len(a) > 0)

AppointmentClass == <<105, 112, 109, 46, 97, 112, 112, 111, 105, 110, 116, 109, 101, 110, 116>>

\* part_000 123-127
IsCalendarMessage(messageClass) ==
    IF ~Truthy(messageClass) THEN FALSE
    ELSE LET normalized == ToLowerCase(messageClass)
         IN  \/ normalized = AppointmentClass
             \/ (Len(normalized) > Len(AppointmentClass)
                 /\ SubSeq(normalized, 1, Len(AppointmentClass) + 1) = AppointmentClass \o <<DOT>>)

NoSubject == <<40, 78, 111, 32, 83, 117, 98, 106, 101, 99, 116, 41>>
EmbeddedName == <<101, 109, 98, 101, 100, 100, 101, 100, 46, 101, 109, 108>>
DotEml == <<46, 101, 109, 108>>
DotMsg == <<46, 109, 115, 103>>

EndsWith(str, suffix) ==
    Len(str) >= Len(suffix) /\ SubSeq(str, Len(str) - Len(suffix) + 1, Len(str)) = suffix

\* part_009 38-66; embedded.eml is what msgToEmlFromMsg returns for the
\* embedded message.
ParseEmbeddedMessage(embedded) ==
    LET fileName == OrElse(embedded.longFilename, OrElse(embedded.filename, EmbeddedName))
        replaced == IF EndsWith(ToLowerCase(fileName), DotMsg)
                    THEN SubSeq(fileName, 1, Len(fileName) - Len(DotMsg)) \o DotEml
                    ELSE fileName
        emlFileName == IF EndsWith(ToLowerCase(fileName), DotEml) THEN fileName
                       ELSE IF replaced # <<>> THEN replaced ELSE fileName \o DotEml
    IN  Attachment(emlFileName, TextEncode(embedded.eml), "message/rfc822", Undefined)

RtfText == <<82>>
RtfHtml == <<60, 98, 62, 82, 32, 38, 97, 109, 112, 59, 32, 66, 60, 47, 98, 62>>

LBRACE == 123
RBRACE == 125

IsLetter(c) == (c >= 65 /\ c <= 90) \/ (c >= 97 /\ c <= 122)
IsDigitOrMinus(c) == (c >= 48 /\ c <= 57) \/ c = 45

\* The value of a hexadecimal digit, or -1.
HexDigitValue(c) ==
    IF c >= 48 /\ c <= 57 THEN c - 48
    ELSE IF c >= 97 /\ c <= 102 THEN c - 87
    ELSE IF c >= 65 /\ c <= 70 THEN c - 55
    ELSE 0 - 1

\* The number the leading hexadecimal digits of str stand for, after acc.
RECURSIVE HexPrefixValue(_, _)
HexPrefixValue(str, acc) ==
    IF str = <<>> \/ HexDigitValue(Head(str)) < 0 THEN acc
    ELSE HexPrefixValue(Tail(str), 16 * acc + HexDigitValue(Head(str)))

\* parseInt(str, 16): {} for NaN. White space, a sign and 0x may come first.
ParseIntHex(str) ==
    LET trimmed == TrimStart(str)
        negative == trimmed # <<>> /\ Head(trimmed) = 45
        unsigned == IF trimmed # <<>> /\ Head(trimmed) \in {43, 45} THEN Tail(trimmed) ELSE trimmed
        digits == IF Len(unsigned) >= 2 /\ unsigned[1] = 48 /\ unsigned[2] \in {88, 120}
                  THEN SubSeq(unsigned, 3, Len(unsigned)) ELSE unsigned
    IN  IF digits = <<>> \/ HexDigitValue(Head(digits)) < 0 THEN {}
        ELSE {IF negative THEN 0 - HexPrefixValue(digits, 0) ELSE HexPrefixValue(digits, 0)}

IsPrefixOf(prefix, str) == Len(str) >= Len(prefix) /\ SubSeq(str, 1, Len(prefix)) = prefix

\* part_003 64: /^\\(fonttbl|colortbl|stylesheet|info|pict|object|fldinst|fldrslt)/
SkipPatterns(ahead) ==
    \E word \in { <<102, 111, 110, 116, 116, 98, 108>>, <<99, 111, 108, 111, 114, 116, 98, 108>>,
                  <<115, 116, 121, 108, 101, 115, 104, 101, 101, 116>>, <<105, 110, 102, 111>>,
                  <<112, 105, 99, 116>>, <<111, 98, 106, 101, 99, 116>>,
                  <<102, 108, 100, 105, 110, 115, 116>>, <<102, 108, 100, 114, 115, 108, 116>> } :
        IsPrefixOf(<<BACKSLASH>> \o word, ahead)

\* The first index from k on where the test fails, Len + 1 if there is none.
SkipWhile(str, k, Test(_)) ==
    LET stops == {i \in k..Len(str) : ~Test(str[i])}
    IN  IF stops # {} THEN CHOOSE i \in stops : \A j \in stops : i <= j
        ELSE IF k > Len(str) THEN k ELSE Len(str) + 1

\* part_003 58-134, the loop from index i (counted from 1)
RECURSIVE ScanRtf(_, _, _, _, _)
ScanRtf(rtf, i, depth, skipGroup, plain) ==
    IF i > Len(rtf) THEN plain
    ELSE IF rtf[i] = LBRACE
    THEN ScanRtf(rtf, i + 1, depth + 1,
                 IF SkipPatterns(SubSeq(rtf, i + 1, IF i + 19 < Len(rtf) THEN i + 19 ELSE Len(rtf)))
                 THEN depth + 1 ELSE skipGroup,
                 plain)
    ELSE IF rtf[i] = RBRACE
    THEN ScanRtf(rtf, i + 1, depth - 1, IF skipGroup = depth THEN 0 ELSE skipGroup, plain)
    ELSE IF skipGroup > 0 THEN ScanRtf(rtf, i + 1, depth, skipGroup, plain)
    ELSE IF rtf[i] = BACKSLASH
    THEN IF i + 1 > Len(rtf) THEN plain
         ELSE LET nextChar == rtf[i + 1]
                  code == ParseIntHex(SubSeq(rtf, i + 2, i + 3))
                  afterWord == SkipWhile(rtf, i + 1, IsLetter)
                  controlWord == SubSeq(rtf, i + 1, afterWord - 1)
                  afterNumber == SkipWhile(rtf, afterWord, IsDigitOrMinus)
                  afterSpace == IF afterNumber <= Len(rtf) /\ rtf[afterNumber] = SP
                                THEN afterNumber + 1 ELSE afterNumber
              IN  IF nextChar = APOSTROPHE /\ i + 2 < Len(rtf)
                  THEN ScanRtf(rtf, i + 4, depth, skipGroup,
                               IF code = {} THEN plain
                               ELSE Append(plain, (CHOOSE n \in code : TRUE) % 65536))
                  ELSE IF nextChar \in {BACKSLASH, LBRACE, RBRACE}
                  THEN ScanRtf(rtf, i + 2, depth, skipGroup, Append(plain, nextChar))
                  ELSE IF nextChar \in {LF, CR}
                  THEN ScanRtf(rtf, i + 2, depth, skipGroup, plain)
                  ELSE ScanRtf(rtf, afterSpace, depth, skipGroup,
                               IF controlWord \in {<<112, 97, 114>>, <<108, 105, 110, 101>>}
                               THEN Append(plain, LF)
                               ELSE IF controlWord = <<116, 97, 98>> THEN Append(plain, TAB)
                               ELSE plain)
    ELSE ScanRtf(rtf, i + 1, depth, skipGroup,
                 IF rtf[i] \in {CR, LF} THEN plain ELSE Append(plain, rtf[i]))

\* part_003 58-143
ExtractPlainTextFromRtf(rtf) == Trim(ScanRtf(rtf, 1, 0, 0, <<>>))

\* str.replace(/pattern/g, replacement) for a pattern that is fixed text, from index k
RECURSIVE ReplaceAll(_, _, _, _)
ReplaceAll(str, k, pattern, replacement) ==
    IF k > Len(str) THEN <<>>
    ELSE IF IsPrefixOf(pattern, SubSeq(str, k, Len(str)))
    THEN replacement \o ReplaceAll(str, k + Len(pattern), pattern, replacement)
    ELSE <<str[k]>> \o ReplaceAll(str, k + 1, pattern, replacement)

\* The first index from k on where str holds pattern, letter case ignored; 0 if none.
FindIgnoringCase(str, k, pattern) ==
    LET hits == {i \in k..(Len(str) - Len(pattern) + 1) :
                    ToLowerCase(SubSeq(str, i, i + Len(pattern) - 1)) = pattern}
    IN  IF hits = {} THEN 0 ELSE CHOOSE i \in hits : \A j \in hits : i <= j

\* .replace(/<tag[^>]*>[\s\S]*?<\/tag>/gi, ""), from index k
RECURSIVE RemoveBlocks(_, _, _)
RemoveBlocks(str, k, tag) ==
    LET open == FindIgnoringCase(str, k, <<LT>> \o tag)
        closing == <<LT, 47>> \o tag \o <<GT>>
        openEnd == FindIgnoringCase(str, open + Len(tag) + 1, <<GT>>)
        close == FindIgnoringCase(str, openEnd + 1, closing)
    IN  IF open = 0 THEN SubSeq(str, k, Len(str))
        ELSE IF openEnd = 0 \/ close = 0
        THEN SubSeq(str, k, open) \o RemoveBlocks(str, open + 1, tag)
        ELSE SubSeq(str, k, open - 1) \o RemoveBlocks(str, close + Len(closing), tag)

\* .replace(/<[^>]+>/g, ""), from index k
RECURSIVE RemoveTags(_, _)
RemoveTags(str, k) ==
    LET end == FindIgnoringCase(str, k + 1, <<GT>>)
    IN  IF k > Len(str) THEN <<>>
        ELSE IF str[k] = LT /\ end > k + 1 THEN RemoveTags(str, end + 1)
        ELSE <<str[k]>> \o RemoveTags(str, k + 1)

\* .replace(/\s+/g, " "), from index k
RECURSIVE CollapseWhiteSpace(_, _)
CollapseWhiteSpace(str, k) ==
    IF k > Len(str) THEN <<>>
    ELSE IF IsWhiteSpace(str[k])
    THEN <<SP>> \o CollapseWhiteSpace(str, SkipWhile(str, k, IsWhiteSpace))
    ELSE <<str[k]>> \o CollapseWhiteSpace(str, k + 1)

\* part_003 148-161
DecodeEntities(str) ==
    ReplaceAll(ReplaceAll(ReplaceAll(ReplaceAll(ReplaceAll(ReplaceAll(str,
        1, <<38, 110, 98, 115, 112, 59>>, <<SP>>),
        1, <<38, 97, 109, 112, 59>>, <<38>>),
        1, <<38, 108, 116, 59>>, <<LT>>),
        1, <<38, 103, 116, 59>>, <<GT>>),
        1, <<38, 113, 117, 111, 116, 59>>, <<QUOTE>>),
        1, <<38, 35, 51, 57, 59>>, <<APOSTROPHE>>)

StripHtmlTags(html) ==
    Trim(CollapseWhiteSpace(DecodeEntities(RemoveTags(
        RemoveBlocks(RemoveBlocks(html, 1, <<115, 116, 121, 108, 101>>),
                     1, <<115, 99, 114, 105, 112, 116>>), 1)), 1))

\* What extractBodyFromRtf returns: null, or {text} with html undefined, or {text, html}.
RtfNull == [isNull |-> TRUE, text |-> <<>>, html |-> Undefined]
RtfBodyResult(plain, html) == [isNull |-> FALSE, text |-> plain, html |-> html]

\* The PidTagRtfCompressed property with what the two libraries do with it:
\* bytes is "absent", "empty" or "data"; decompressRTF throws or gives
\* rtfString; deEncapsulateSync throws, or gives encapsulated in mode "html"
\* or "text".
CompressedRtf(bytes, decompressThrows, rtfString, mode, encapsulated) ==
    [bytes |-> bytes, decompressThrows |-> decompressThrows, rtfString |-> rtfString,
     mode |-> mode, encapsulated |-> encapsulated]

\* A message without the property.
RtfAbsent == CompressedRtf("absent", FALSE, <<>>, "throws", <<>>)

\* A call that returned value, and a call that threw.
Returned(value) == [threw |-> FALSE, value |-> value]
Thrown == [threw |-> TRUE, value |-> RtfNull]

\* part_003 26-48: the inner try, and its catch that scans the RTF by hand
ScannedResult(plain) ==
    Returned(IF Truthy(plain) THEN RtfBodyResult(plain, Undefined) ELSE RtfNull)

DeEncapsulateOrScan(compressedRtf) ==
    IF compressedRtf.mode = "throws"
    THEN ScannedResult(ExtractPlainTextFromRtf(compressedRtf.rtfString))
    ELSE IF compressedRtf.mode = "html"
    THEN Returned(RtfBodyResult(StripHtmlTags(compressedRtf.encapsulated),
                                compressedRtf.encapsulated))
    ELSE Returned(RtfBodyResult(compressedRtf.encapsulated, Undefined))

\* part_003 19-48: the body of the outer try
DecompressAndExtract(compressedRtf) ==
    IF compressedRtf.decompressThrows THEN Thrown ELSE DeEncapsulateOrScan(compressedRtf)

\* part_003 48-51: the catch of the outer try
CatchAll(outcome) == IF outcome.threw THEN Returned(RtfNull) ELSE outcome

\* part_003 14-52 without the catch of line 49
ExtractBodyFromRtfUncaught(compressedRtf) ==
    IF compressedRtf.bytes \in {"absent", "empty"} THEN Returned(RtfNull)
    ELSE DecompressAndExtract(compressedRtf)

\* part_003 14-52: [threw, value]
ExtractBodyFromRtf(compressedRtf) ==
    IF compressedRtf.bytes \in {"absent", "empty"} THEN Returned(RtfNull)
    ELSE CatchAll(DecompressAndExtract(compressedRtf))

\* {\rtf1 R\par\'e9}, and {\rtf1{\fonttbl f}}, which has no text
PlainRtf == <<123, 92, 114, 116, 102, 49, 32, 82, 92, 112, 97, 114, 92, 39, 101, 57, 125>>
EmptyRtf == <<123, 92, 114, 116, 102, 49, 123, 92, 102, 111, 110, 116, 116, 98, 108, 32, 102, 125, 125>>

RtfChoices ==
    { RtfAbsent,
      CompressedRtf("empty", FALSE, <<>>, "throws", <<>>),
      CompressedRtf("data", TRUE, <<>>, "throws", <<>>),
      CompressedRtf("data", FALSE, PlainRtf, "throws", <<>>),
      CompressedRtf("data", FALSE, EmptyRtf, "throws", <<>>),
      CompressedRtf("data", FALSE, PlainRtf, "text", RtfText),
      CompressedRtf("data", FALSE, PlainRtf, "html", RtfHtml) }

\* extractBodyFromRtf on each compressed RTF property that a message can
\* have, computed once: the pairs of argument and outcome.
ExtractedRtf == {<<r, ExtractBodyFromRtf(r)>> : r \in RtfChoices}

\* part_010 239-252: the result of extractBodyFromRtf when the message has
\* no body, no HTML body and a compressed RTF property that is not empty.
RtfResultOf(m) ==
    IF ~Truthy(m.body) /\ ~Truthy(m.bodyHtml) /\ m.rtf.bytes = "data"
    THEN (CHOOSE p \in ExtractedRtf : p[1] = m.rtf)[2].value
    ELSE RtfNull

\* part_010 233-252: body and bodyHtml, with the RTF fallback.
PickBody(m, rtfResult) ==
    IF ~rtfResult.isNull THEN rtfResult.text ELSE OrElse(m.body, <<>>)

PickBodyHtml(m, rtfResult) ==
    IF ~rtfResult.isNull /\ Truthy(rtfResult.html) THEN rtfResult.html ELSE m.bodyHtml

BodyOf(m) == PickBody(m, RtfResultOf(m))

BodyHtmlOf(m) == PickBodyHtml(m, RtfResultOf(m))

\* part_010 272-364: the MessageHeaders object
HeadersOf(m) ==
    LET senderEmail == ExtractSenderInfo(m).from.email
        xPriority == MapToXPriority(m.priority, m.importance)
    IN  [defined |-> TRUE,
         messageId |-> FieldOf(m.internetMessageId),
         inReplyTo |-> FieldOf(m.inReplyToId),
         references |-> FieldOf(m.internetReferences),
         replyTo |-> FieldOf(m.replyRecipientNames),
         priority |-> IF xPriority = {} THEN Undefined
                      ELSE <<48 + (CHOOSE n \in xPriority : TRUE)>>,
         sensitivity |-> MapSensitivity(m.sensitivity),
         dispositionNotificationTo |->
             IF m.readReceiptRequested /\ Truthy(senderEmail) THEN senderEmail ELSE Undefined,
         returnReceiptTo |->
             IF m.originatorDeliveryReportRequested /\ Truthy(senderEmail)
             THEN senderEmail ELSE Undefined,
         transportMessageHeaders |-> FieldOf(m.transportMessageHeaders),
         threadIndex |-> IF Truthy(m.conversationIndex)
                         THEN Base64Encode(m.conversationIndex) ELSE Undefined,
         threadTopic |-> FieldOf(m.conversationTopic),
         receivedByEmail |-> FieldOf(m.receivedBySmtpAddress),
         receivedByName |-> FieldOf(m.receivedByName),
         listHelp |-> FieldOf(m.listHelp),
         listSubscribe |-> FieldOf(m.listSubscribe),
         listUnsubscribe |-> FieldOf(m.listUnsubscribe),
         keywords |-> IF "categories" \in m.unresolved THEN <<>> ELSE m.categories]

\* Object.keys(headers).length > 0
HasKeys(h) ==
    \/ \E f \in DOMAIN h \ {"defined", "keywords"} : h[f] # Undefined
    \/ h.keywords # <<>>

\* part_010 366-377: a read of a named property that the collaborator
\* cannot resolve throws, and nothing catches it. m.unresolved holds the
\* named properties whose getProperty throws.
NamedPropertyThrows(m) ==
    /\ IsCalendarMessage(m.messageClass)
    /\ \/ m.unresolved \cap {"appointmentStartWhole", "appointmentEndWhole"} # {}
       \/ /\ m.appointmentStartWhole /\ m.appointmentEndWhole
          /\ m.unresolved \cap {"location", "toAttendeesString", "ccAttendeesString"} # {}

\* part_010 366-393
CalendarEventOf(m) ==
    IF IsCalendarMessage(m.messageClass) /\ m.appointmentStartWhole /\ m.appointmentEndWhole
    THEN LET info == ExtractSenderInfo(m)
         IN  [defined |-> TRUE,
              location |-> FieldOf(m.location),
              organizer |-> FieldOf(OrElse(info.from.email, info.from.name)),
              attendees |-> ParseAttendeeString(m.toAttendeesString)
                            \o ParseAttendeeString(m.ccAttendeesString)]
    ELSE NoCalendarEvent

\* part_010 231-413, given the recipients that msg.recipients().map gave
ParseMsgFromMsg(m, rs) ==
    LET senderInfo == ExtractSenderInfo(m)
        headers == HeadersOf(m)
    IN  [subject |-> OrElse(m.subject, NoSubject),
         from |-> FormatSender(senderInfo.from.email, senderInfo.from.name),
         sender |-> IF senderInfo.isOnBehalfOf
                    THEN FormatSender(senderInfo.sender.email, senderInfo.sender.name)
                    ELSE Undefined,
         recipients |-> rs,
         date |-> IF m.messageDeliveryTime THEN "deliveryTime" ELSE "now",
         body |-> BodyOf(m),
         bodyHtml |-> FieldOf(BodyHtmlOf(m)),
         attachments |->
             Flatten([k \in DOMAIN m.attachments |-> ParseAttachment(m.attachments[k])])
             \o [k \in DOMAIN m.embeddedMessages |-> ParseEmbeddedMessage(m.embeddedMessages[k])],
         headers |-> IF HasKeys(headers) THEN headers ELSE NoHeaders,
         calendarEvent |-> CalendarEventOf(m)]

-----------------------------------------------------------------------------
(* parseMsgFromMsg followed by convertToEml, one recipient per step *)

\* A message handle with no property set.
EmptyMsg ==
    [subject |-> Undefined, body |-> Undefined, bodyHtml |-> Undefined, rtf |-> RtfAbsent,
     messageDeliveryTime |-> FALSE,
     senderSmtpAddress |-> Undefined, senderEmailAddress |-> Undefined,
     senderName |-> Undefined, sentRepresentingSmtpAddress |-> Undefined,
     sentRepresentingEmailAddress |-> Undefined, sentRepresentingName |-> Undefined,
     recipients |-> <<>>, attachments |-> <<>>, embeddedMessages |-> <<>>,
     internetMessageId |-> Undefined, inReplyToId |-> Undefined,
     internetReferences |-> Undefined, replyRecipientNames |-> Undefined,
     priority |-> {}, importance |-> {}, sensitivity |-> {},
     readReceiptRequested |-> FALSE, originatorDeliveryReportRequested |-> FALSE,
     transportMessageHeaders |-> Undefined, conversationIndex |-> Undefined,
     conversationTopic |-> Undefined, receivedBySmtpAddress |-> Undefined,
     receivedByName |-> Undefined, listHelp |-> Undefined, listSubscribe |-> Undefined,
     listUnsubscribe |-> Undefined, categories |-> <<>>,
     messageClass |-> Undefined, appointmentStartWhole |-> FALSE,
     appointmentEndWhole |-> FALSE, location |-> Undefined,
     toAttendeesString |-> Undefined, ccAttendeesString |-> Undefined,
     unresolved |-> {}]

\* The subject, the bodies and the delivery time, every subset absent, and
\* the RTF body for messages that have none of them.
ContentChoices ==
    { c \in [subject : {Undefined, <<83>>}, body : {Undefined, <<72, 105>>},
             bodyHtml : {Undefined, <<60, 98, 62>>}, messageDeliveryTime : BOOLEAN,
             rtf : RtfChoices] :
        c.rtf # RtfAbsent => (/\ c.body = Undefined /\ c.bodyHtml = Undefined
                              /\ c.subject = Undefined /\ ~c.messageDeliveryTime) }

SenderRecord(smtp, address, name, rSmtp, rAddress, rName) ==
    [senderSmtpAddress |-> smtp, senderEmailAddress |-> address, senderName |-> name,
     sentRepresentingSmtpAddress |-> rSmtp, sentRepresentingEmailAddress |-> rAddress,
     sentRepresentingName |-> rName]

UpperAddressA == <<65, 64, 88, 46, 67, 79, 77>>
ExchangeAddress == <<47, 111, 61, 120, 47, 99, 110, 61, 98>>

SenderChoices ==
    { SenderRecord(Undefined, Undefined, Undefined, Undefined, Undefined, Undefined),
      SenderRecord(AddressA, Undefined, Undefined, Undefined, Undefined, Undefined),
      SenderRecord(Undefined, Undefined, NameA, Undefined, Undefined, Undefined),
      SenderRecord(AddressA, Undefined, NameA, UpperAddressA, Undefined, NameA),
      SenderRecord(AddressA, Undefined, NameA, AddressB, Undefined, NameB),
      SenderRecord(Undefined, Undefined, NameA, Undefined, Undefined, NameB),
      SenderRecord(Undefined, ExchangeAddress, NameA, Undefined, Undefined, NameB),
      SenderRecord(Undefined, Undefined, Undefined, AddressB, Undefined, NameB),
      \* the same identity up to case and white space
      SenderRecord(AddressA, Undefined, NameA, Undefined, UpperAddressA \o <<SP>>, NameB),
      SenderRecord(Undefined, Undefined, NameA, Undefined, Undefined, NameA \o <<SP>>),
      \* a name on one side, an address on the other
      SenderRecord(Undefined, Undefined, NameA, AddressB, Undefined, Undefined) }

MsgRecipient(displayName, smtpAddress, emailAddress, recipientType) ==
    [displayName |-> displayName, smtpAddress |-> smtpAddress,
     emailAddress |-> emailAddress, recipientType |-> recipientType]

MsgRecipientChoices ==
    { MsgRecipient(NameB, AddressB, Undefined, {1}),
      MsgRecipient(NameB, Undefined, Undefined, {2}),
      MsgRecipient(Undefined, Undefined, Undefined, {}),
      \* a legacy address property that is the empty string
      MsgRecipient(NameA, Undefined, <<>>, {3}) }

MaxRecipients == 2

MsgAttachment(longFilename, filename, content, mimeTag, contentId) ==
    [longFilename |-> longFilename, filename |-> filename, content |-> content,
     mimeTag |-> mimeTag, contentId |-> contentId]

AttachmentChoices ==
    { [attachments |-> <<>>, embeddedMessages |-> <<>>],
      [attachments |-> << MsgAttachment(Undefined, PngName, <<137, 80, 78, 71>>, "", Undefined),
                          MsgAttachment(Undefined, Undefined, <<1>>, "image/png", Undefined) >>,
       embeddedMessages |-> <<>>],
      [attachments |-> << MsgAttachment(PngName, Undefined, <<137, 80, 78, 71>>, "image/png",
                                        <<105, 49>>) >>,
       embeddedMessages |-> <<>>],
      [attachments |-> <<>>,
       embeddedMessages |-> << [longFilename |-> Undefined, filename |-> Undefined,
                                eml |-> TextDecode(EmbeddedDocument)] >>] }

\* The other properties: none, the header properties, a calendar message.
\* A transport header block: a Received line, a folded From line, a To line
\* and a Subject line, each ended by CRLF:
\*   Received: by x / From: Ann / <tab><a@x.com> / To: bob <b@x.com> / Subject: S
TransportBlock ==
    <<82, 101, 99, 101, 105, 118, 101, 100, 58, 32, 98, 121, 32, 120, 13, 10, 70, 114, 111, 109, 58, 32, 65, 110, 110, 13, 10, 9, 60, 97, 64, 120, 46, 99, 111, 109, 62, 13, 10, 84, 111, 58, 32, 98, 111, 98, 32, 60, 98, 64, 120, 46, 99, 111, 109, 62, 13, 10, 83, 117, 98, 106, 101, 99, 116, 58, 32, 83, 13, 10>>

OtherChoices ==
    { [k \in {} |-> 0],
      [transportMessageHeaders |-> TransportBlock],
      [internetMessageId |-> MessageIdText, inReplyToId |-> MessageIdText,
       priority |-> {1}, sensitivity |-> {2}, readReceiptRequested |-> TRUE,
       originatorDeliveryReportRequested |-> TRUE, conversationIndex |-> <<1, 2, 3>>,
       conversationTopic |-> <<84>>, categories |-> <<NameA>>],
      [messageClass |-> <<73, 80, 77, 46, 65, 112, 112, 111, 105, 110, 116, 109, 101, 110, 116>>, appointmentStartWhole |-> TRUE,
       appointmentEndWhole |-> TRUE, toAttendeesString |-> AddressB \o <<SEMICOLON, SP>> \o NameB],
      \* named properties that the collaborator cannot resolve
      [conversationTopic |-> <<84>>, categories |-> <<NameA>>, unresolved |-> {"categories"}],
      [messageClass |-> <<73, 80, 77, 46, 65, 112, 112, 111, 105, 110, 116, 109, 101, 110, 116>>, appointmentStartWhole |-> TRUE,
       appointmentEndWhole |-> TRUE, unresolved |-> {"location"}] }

\* Record r with the fields of record o put over it.
Over(r, o) == [f \in DOMAIN r |-> IF f \in DOMAIN o THEN o[f] ELSE r[f]]

\* A message: one choice of each kind, put together.
ParseInit ==
    /\ \E c \in ContentChoices, sc \in SenderChoices, a \in AttachmentChoices,
          o \in OtherChoices,
          rs \in UNION {[1..n -> MsgRecipientChoices] : n \in 0..MaxRecipients} :
            msg = Over(Over(Over(Over(Over(EmptyMsg, c), sc), [recipients |-> rs]), a), o)
    /\ mapped = <<>>
    /\ parsePc = "start"

\* part_010 232-254: the properties read before the recipients
ParseBegin ==
    /\ parsePc = "start"
    /\ parsePc' = "recipients"
    /\ UNCHANGED <<msg, mapped, foldVars, encVars, emlVars>>
    /\ UNCHANGED clientVars

\* part_010 256: the call map makes for the next recipient, parseRecipient(recipient, index, array)
NextRecipientCall == ParseRecipient(msg.recipients[Len(mapped) + 1], IndexArgument(Len(mapped)))

\* part_010 256, a call that returns
ParseRecipientReturns ==
    /\ parsePc = "recipients"
    /\ Len(mapped) < Len(msg.recipients)
    /\ ~NextRecipientCall.threw
    /\ mapped' = Append(mapped, NextRecipientCall.value)
    /\ UNCHANGED <<msg, parsePc, foldVars, encVars, emlVars>>
    /\ UNCHANGED clientVars

\* part_010 256, a call that throws: nothing catches it up to the caller of msgToEml
ParseRecipientThrows ==
    /\ parsePc = "recipients"
    /\ Len(mapped) < Len(msg.recipients)
    /\ NextRecipientCall.threw
    /\ parsePc' = "threw"
    /\ UNCHANGED <<msg, mapped, foldVars, encVars, emlVars>>
    /\ UNCHANGED clientVars

\* part_010 258-412
ParseFinish ==
    /\ parsePc = "recipients"
    /\ Len(mapped) = Len(msg.recipients)
    /\ ~NamedPropertyThrows(msg)
    /\ parsed' = ParseMsgFromMsg(msg, mapped)
    /\ parsePc' = "parsed"
    /\ UNCHANGED <<msg, mapped, eml, emlPc, foldVars, encVars>>
    /\ UNCHANGED clientVars

\* part_010 371-377, a getProperty that throws: nothing catches it up to the caller of msgToEml
ParsePropertyThrows ==
    /\ parsePc = "recipients"
    /\ Len(mapped) = Len(msg.recipients)
    /\ NamedPropertyThrows(msg)
    /\ parsePc' = "threw"
    /\ UNCHANGED <<msg, mapped, foldVars, encVars, emlVars>>
    /\ UNCHANGED clientVars

\* eml.ts 158-162: convertToEml(parsed)
PipelineConvert ==
    /\ parsePc = "parsed"
    /\ eml' = ConvertToEml(parsed)
    /\ emlPc' = "done"
    /\ parsePc' = "done"
    /\ UNCHANGED <<msg, mapped, parsed, foldVars, encVars>>
    /\ UNCHANGED clientVars

ParseNext ==
    \/ ParseBegin \/ ParseRecipientReturns \/ ParseRecipientThrows
    \/ ParseFinish \/ ParsePropertyThrows \/ PipelineConvert

-----------------------------------------------------------------------------
(* Specifications: one per component, the other components idle *)

InitFold == FoldInit /\ EncIdle /\ EmlIdle /\ ParseIdle /\ ClientIdle
SpecFold == InitFold /\ [][FoldNext]_vars

InitEnc == EncInit /\ FoldIdle /\ EmlIdle /\ ParseIdle /\ ClientIdle
SpecEnc == InitEnc /\ [][EncNext]_vars

InitEml == EmlInit /\ FoldIdle /\ EncIdle /\ ParseIdle /\ ClientIdle
SpecEml == InitEml /\ [][EmlNext]_vars

InitParse == ParseInit /\ FoldIdle /\ EncIdle /\ EmlIdle /\ ClientIdle
SpecParse == InitParse /\ [][ParseNext]_vars

-----------------------------------------------------------------------------
(* Properties of the header folder *)

\* The text of physical line k without the "Name:" or tab that starts it.
LineContent(k) ==
    IF k = 1 THEN SubstringFrom(foldResult[1], Len(headerName) + 1)
    ELSE SubstringFrom(foldResult[k], 1)

\* A line holds more than one token when, by the folder's own scan, a safe
\* break point lies strictly inside its text.
HasInnerBreak(s) ==
    LET t == TrimStart(TrimEnd(s))
    IN  SafeBreakScan(t, Len(t), 0, -1, FALSE, FALSE, FALSE) > 0

\* C2: foldHeader never breaks inside an encoded word, a quoted string or an
\* angle-bracket address: each such span of the value is found whole in one
\* physical line of the result, fallback breaks included.
C2_FoldKeepsSpans ==
    foldPc = "done" =>
        \A i \in DOMAIN valueTokens :
            valueTokens[i] \in GuardedTokens =>
                \E k \in DOMAIN foldResult : IsInfix(valueTokens[i], foldResult[k])

\* C9: every physical line of the result is at most maxLineLength long,
\* except a line that holds a single unbreakable token.
C9_FoldLineBound ==
    foldPc = "done" =>
        \A k \in DOMAIN foldResult :
            Len(foldResult[k]) <= maxLineLength \/ ~HasInnerBreak(LineContent(k))

\* Unfolding, as the reader of the header does it: each CRLF followed by a
\* tab becomes one space.
RECURSIVE Unfold(_)
Unfold(str) ==
    IF str = <<>> THEN <<>>
    ELSE IF Len(str) >= 3 /\ str[1] = CR /\ str[2] = LF /\ str[3] = TAB
         THEN <<SP>> \o Unfold(SubSeq(str, 4, Len(str)))
    ELSE <<str[1]>> \o Unfold(Tail(str))

\* C12: unfolding the result of foldHeader gives back the line "name: value":
\* no character of the value is dropped, added or moved.
C12_UnfoldGivesBack ==
    foldPc = "done" =>
        Unfold(Join(foldResult, <<CR, LF>>)) = FullHeader(headerName, headerValue)

-----------------------------------------------------------------------------
(* Properties of the encoded-word encoder *)

\* C3: for every non-ASCII string, decoding the payload of each encoded word
\* of encodeRfc2047's result and concatenating gives the string back.
C3_EncodedWordsRoundTrip ==
    (encPc = "done" /\ ~IsAscii(text)) => DecodeWords(encResult) = text

\* C10: for every non-ASCII string, each encoded word of the result is at
\* most 75 characters long (a base64 payload of at most 63, padding included).
C10_EncodedWordLength ==
    (encPc = "done" /\ ~IsAscii(text)) =>
        \A k \in DOMAIN Split(encResult, SP) :
            Len(Split(encResult, SP)[k]) <= EncodedWordLimit

-----------------------------------------------------------------------------
(* The document as text *)

\* Stands for a run of fixed text of the program, which holds no CR and no LF.
FixedText == <<35>>

\* The code units a piece puts into the document.
Render(piece) ==
    IF piece.kind = "raw" THEN piece.codes
    ELSE IF piece.kind = "text" THEN FixedText
    ELSE IF piece.kind = "header" THEN piece.codes \o <<CR, LF>>
    ELSE IF piece.kind = "line"
         THEN (IF piece.s = "" THEN <<>> ELSE FixedText) \o <<CR, LF>>
    ELSE IF piece.kind = "linewith"
         THEN (IF piece.s = "" THEN <<>> ELSE FixedText) \o piece.codes \o <<CR, LF>>
    ELSE IF piece.kind = "parttype" THEN FixedText \o piece.codes \o <<CR, LF>>
    ELSE FixedText \o <<CR, LF>>

Document(pieces) == Flatten([k \in DOMAIN pieces |-> Render(pieces[k])])

\* No LF without a CR before it and no CR without a LF after it.
CrLfOnly(str) ==
    \A k \in DOMAIN str :
        /\ str[k] = LF => (k > 1 /\ str[k - 1] = CR)
        /\ str[k] = CR => (k < Len(str) /\ str[k + 1] = LF)

\* The index of the first blank line among the pieces (0: none).
FirstBlank(pieces) ==
    IF \E k \in DOMAIN pieces : pieces[k] = BlankLine
    THEN CHOOSE k \in DOMAIN pieces :
            pieces[k] = BlankLine /\ \A j \in 1..(k - 1) : pieces[j] # BlankLine
    ELSE 0

\* The text of the header section: everything before the first blank line piece.
HeaderSection(pieces) == Document(SubSeq(pieces, 1, FirstBlank(pieces) - 1))

HasEmptyLine(str) ==
    \/ (Len(str) >= 2 /\ str[1] = CR /\ str[2] = LF)
    \/ \E k \in 1..(Len(str) - 3) :
          str[k] = CR /\ str[k + 1] = LF /\ str[k + 2] = CR /\ str[k + 3] = LF

\* C8: the document has CRLF line ends only, whatever bare LF or CR the
\* body, the header values and the embedded documents hold, and its header
\* section is ended by one blank line: there is a blank line after the
\* header lines and none among them.
C8_CrLfThroughout ==
    emlPc = "done" =>
        /\ CrLfOnly(Document(eml))
        /\ FirstBlank(eml) > 0
        /\ ~HasEmptyLine(HeaderSection(eml))

\* str has a physical line of more than n characters.
HasLineOver(str, n) ==
    \E i \in 1..(Len(str) - n) : \A j \in i..(i + n) : str[j] \notin {CR, LF}

\* The header lines that foldHeader wrote.
FoldedHeaderText(pieces) ==
    Flatten([k \in 1..(FirstBlank(pieces) - 1) |->
                IF pieces[k].kind = "header" THEN pieces[k].codes \o <<CR, LF>> ELSE <<>>])

\* C11: no physical line of a header of the document is longer than 998
\* characters, whatever the header value is, a value with no break point
\* included.
C11_HardLineLimit ==
    emlPc = "done" => ~HasLineOver(FoldedHeaderText(eml), HardLineLimit)

-----------------------------------------------------------------------------
(* Properties of the document builder *)

IsBoundaryPiece(piece) == piece.kind \in {"delimiter", "close"}

\* The text of the body that starts at piece k: the message text from there
\* up to the next boundary line.
RECURSIVE BodyFrom(_, _)
BodyFrom(pieces, k) ==
    IF k > Len(pieces) \/ IsBoundaryPiece(pieces[k]) THEN <<>>
    ELSE Render(pieces[k]) \o BodyFrom(pieces, k + 1)

\* Piece k starts a message/rfc822 part with the 7bit transfer encoding.
IsRfc822PartAt(pieces, k) ==
    /\ k + 3 <= Len(pieces)
    /\ pieces[k].kind = "parttype" /\ pieces[k].s = "message/rfc822"
    /\ pieces[k + 2] = Line("Content-Transfer-Encoding: 7bit")
    /\ pieces[k + 3] = BlankLine

\* C6: for every message/rfc822 attachment the document has a 7bit part whose
\* body, as bytes, is the content of the attachment (followed by the CRLF
\* that ends the part when the content does not end in one).
C6_EmbeddedVerbatim ==
    emlPc = "done" =>
        \A i \in DOMAIN parsed.attachments :
            parsed.attachments[i].contentType = "message/rfc822" =>
                \E k \in DOMAIN eml :
                    /\ IsRfc822PartAt(eml, k)
                    /\ TextEncode(BodyFrom(eml, k + 4))
                         \in {parsed.attachments[i].content,
                              parsed.attachments[i].content \o <<CR, LF>>}

TextPlainLine == Line("Content-Type: text/plain; charset=\"utf-8\"")
TextHtmlLine == Line("Content-Type: text/html; charset=\"utf-8\"")
TextCalendarLine == Line("Content-Type: text/calendar; charset=\"utf-8\"; method=REQUEST")

\* The pieces that make the structure of the body: the content types of the
\* entities and the boundary lines.
IsStructural(piece) ==
    \/ piece.kind \in {"multipart", "delimiter", "close", "parttype"}
    \/ piece \in {TextPlainLine, TextHtmlLine, TextCalendarLine}

\* The structure of the document: the structural pieces after the header block.
Structure(pieces) ==
    SelectSeq(SubSeq(pieces, Len(EmlHeaders(parsed)) + 1, Len(pieces)), IsStructural)

\* The structure of a part for attachment att under boundary.
PartOf(att, boundary) ==
    << Delimiter(boundary),
       [kind |-> "parttype", s |-> att.contentType, b |-> "",
        codes |-> FormatFilenameParams(att.fileName).value] >>

PartsOf(atts, boundary) == Flatten([k \in DOMAIN atts |-> PartOf(atts[k], boundary)])

\* multipart/alternative [text, html?, calendar?]
AlternativeOf(p) ==
    << MultipartType("alternative", AltBoundary), Delimiter(AltBoundary), TextPlainLine >>
    \o (IF HasHtml(p) THEN <<Delimiter(AltBoundary), TextHtmlLine>> ELSE <<>>)
    \o (IF HasCalendar(p) THEN <<Delimiter(AltBoundary), TextCalendarLine>> ELSE <<>>)
    \o <<CloseDelimiter(AltBoundary)>>

\* The first rule of the six that matches (0: none does).
FirstRule(p) ==
    IF HasHtml(p) /\ HasInlineAttachments(p) /\ HasRegularAttachments(p) THEN 1
    ELSE IF HasHtml(p) /\ HasInlineAttachments(p) /\ ~HasRegularAttachments(p) THEN 2
    ELSE IF (HasHtml(p) \/ HasCalendar(p)) /\ HasRegularAttachments(p)
            /\ ~HasInlineAttachments(p) THEN 3
    ELSE IF (HasHtml(p) \/ HasCalendar(p)) /\ ~HasAttachments(p) THEN 4
    ELSE IF ~HasHtml(p) /\ ~HasCalendar(p) /\ HasAttachments(p) THEN 5
    ELSE IF ~HasHtml(p) /\ ~HasCalendar(p) /\ ~HasAttachments(p) THEN 6
    ELSE 0

\* The structure each rule asks for.
StructureOfRule(rule, p) ==
    IF rule = 1
    THEN << MultipartType("mixed", MixedBoundary), Delimiter(MixedBoundary),
            MultipartType("related", RelatedBoundary), Delimiter(RelatedBoundary) >>
         \o AlternativeOf(p)
         \o PartsOf(InlineAttachments(p), RelatedBoundary)
         \o <<CloseDelimiter(RelatedBoundary)>>
         \o PartsOf(RegularAttachments(p), MixedBoundary)
         \o <<CloseDelimiter(MixedBoundary)>>
    ELSE IF rule = 2
    THEN << MultipartType("related", RelatedBoundary), Delimiter(RelatedBoundary) >>
         \o AlternativeOf(p)
         \o PartsOf(InlineAttachments(p), RelatedBoundary)
         \o <<CloseDelimiter(RelatedBoundary)>>
    ELSE IF rule = 3
    THEN << MultipartType("mixed", MixedBoundary), Delimiter(MixedBoundary) >>
         \o AlternativeOf(p)
         \o PartsOf(RegularAttachments(p), MixedBoundary)
         \o <<CloseDelimiter(MixedBoundary)>>
    ELSE IF rule = 4 THEN AlternativeOf(p)
    ELSE IF rule = 5
    THEN << MultipartType("mixed", MixedBoundary), Delimiter(MixedBoundary), TextPlainLine >>
         \o PartsOf(p.attachments, MixedBoundary)
         \o <<CloseDelimiter(MixedBoundary)>>
    ELSE <<TextPlainLine>>

\* C1: the document has the structure of the first of the six rules that
\* matches the message (and one of them does).
C1_StructureByFirstRule ==
    emlPc = "done" =>
        /\ FirstRule(parsed) \in 1..6
        /\ Structure(eml) = StructureOfRule(FirstRule(parsed), parsed)

\* The names of the header lines of the header section, in the order they
\* are written, with the Content-Type line that ends it.
HeaderNames(pieces) ==
    LET top == SubSeq(pieces, 1, FirstBlank(pieces) - 1)
        named == SelectSeq(top, LAMBDA piece : piece.kind = "header")
    IN  [k \in DOMAIN named |-> named[k].s]
        \o (IF \E k \in DOMAIN top :
                   top[k].kind = "multipart" \/ top[k] = TextPlainLine
            THEN <<"Content-Type">> ELSE <<>>)

\* <<name>> when the message has what the header is written from.
NameIf(present, name) == IF present THEN <<name>> ELSE <<>>

HeaderField(p, field) == p.headers.defined /\ Truthy(p.headers[field])

\* The header lines in their order, for the fields message p has.
HeaderOrder(p) ==
    <<"From">>
    \o NameIf(Truthy(p.sender), "Sender")
    \o NameIf(RecipientsOfType(p.recipients, "to") # <<>>, "To")
    \o NameIf(RecipientsOfType(p.recipients, "cc") # <<>>, "Cc")
    \o NameIf(RecipientsOfType(p.recipients, "bcc") # <<>>, "Bcc")
    \o <<"Subject", "Date", "MIME-Version">>
    \o NameIf(HeaderField(p, "messageId"), "Message-ID")
    \o NameIf(HeaderField(p, "inReplyTo"), "In-Reply-To")
    \o NameIf(HeaderField(p, "references"), "References")
    \o NameIf(HeaderField(p, "replyTo"), "Reply-To")
    \o NameIf(HeaderField(p, "priority"), "X-Priority")
    \o NameIf(HeaderField(p, "sensitivity"), "Sensitivity")
    \o NameIf(HeaderField(p, "dispositionNotificationTo"), "Disposition-Notification-To")
    \o NameIf(HeaderField(p, "returnReceiptTo"), "Return-Receipt-To")
    \o NameIf(HeaderField(p, "threadIndex"), "Thread-Index")
    \o NameIf(HeaderField(p, "threadTopic"), "Thread-Topic")
    \o NameIf(HeaderField(p, "listHelp"), "List-Help")
    \o NameIf(HeaderField(p, "listSubscribe"), "List-Subscribe")
    \o NameIf(HeaderField(p, "listUnsubscribe"), "List-Unsubscribe")
    \o NameIf(HeaderField(p, "receivedByEmail")
              /\ ~HeaderField(p, "transportMessageHeaders"), "Delivered-To")
    \o NameIf(HeaderField(p, "transportMessageHeaders"), "transport headers")
    \o <<"Content-Type">>

\* C4: the header lines of the document are, in this order, From, Sender,
\* To, Cc, Bcc, Subject, Date, MIME-Version, Message-ID, In-Reply-To,
\* References, Reply-To, X-Priority, Sensitivity, Disposition-Notification-To,
\* Return-Receipt-To, Thread-Index, Thread-Topic, List-Help, List-Subscribe,
\* List-Unsubscribe, Delivered-To, the transport header lines and
\* Content-Type: each one that the message has the field for, once.
C4_HeaderOrder ==
    emlPc = "done" => HeaderNames(eml) = HeaderOrder(parsed)

-----------------------------------------------------------------------------
(* Properties of parsing followed by conversion *)

SenderNameCodes == <<83, 101, 110, 100, 101, 114>>

\* The indices of the header lines called name.
HeaderLines(pieces, name) ==
    {k \in DOMAIN pieces : pieces[k].kind = "header" /\ pieces[k].s = name}

\* C5: when the sender properties are detected as a delegation, the document
\* has a From line with the represented identity and one Sender line, right
\* after From, with the actual identity; when they are not, it has no
\* Sender line.
C5_SenderOnDelegation ==
    parsePc = "done" =>
        LET info == ExtractSenderInfo(msg)
        IN  IF info.isOnBehalfOf
            THEN /\ eml[1] = FoldedHeader("From",
                                 FormatSender(ExtractRepresentedSenderEmail(msg),
                                              ExtractRepresentedSenderName(msg)))
                 /\ HeaderLines(eml, "Sender") = {2}
                 /\ eml[2].codes =
                        FoldHeader(SenderNameCodes,
                                   FormatSender(ExtractActualSenderEmail(msg),
                                                ExtractActualSenderName(msg)),
                                   DefaultMaxLineLength)
            ELSE HeaderLines(eml, "Sender") = {}

\* C7: parsing and conversion never throw, whichever properties are absent,
\* and an absent subject, delivery time, sender identity and body give
\* "(No Subject)", the current time, unknown@unknown.com and "".
C7_NeverThrows ==
    /\ parsePc # "threw"
    /\ parsePc \in {"parsed", "done"} =>
        /\ ~Truthy(msg.subject) => parsed.subject = NoSubject
        /\ ~msg.messageDeliveryTime => parsed.date = "now"
        /\ (~Truthy(ExtractSenderInfo(msg).from.email)
            /\ ~Truthy(ExtractSenderInfo(msg).from.name)) => parsed.from = UnknownAddress
        /\ (~Truthy(msg.body) /\ RtfResultOf(msg).isNull) => parsed.body = <<>>

\* The two identities of the message: the actual and the represented sender.
ActualIdentity == [email |-> ExtractActualSenderEmail(msg), name |-> ExtractActualSenderName(msg)]
RepresentedIdentity ==
    [email |-> ExtractRepresentedSenderEmail(msg), name |-> ExtractRepresentedSenderName(msg)]

EmptyIdentity(id) == ~Truthy(id.email) /\ ~Truthy(id.name)

\* The table of delegation over two identities.
DelegationTable(a, r) ==
    /\ ~EmptyIdentity(a)
    /\ ~EmptyIdentity(r)
    /\ \/ /\ Truthy(a.email) /\ Truthy(r.email)
          /\ Trim(ToLowerCase(a.email)) # Trim(ToLowerCase(r.email))
       \/ /\ ~Truthy(a.email) /\ ~Truthy(r.email)
          /\ Truthy(a.name) /\ Truthy(r.name)
          /\ Trim(a.name) # Trim(r.name)
       \/ Truthy(a.email) # Truthy(r.email)

\* C13: a message is treated as delegated (its parsed form has a sender, and
\* its From is the represented identity) exactly when the table says so:
\* neither identity empty, and the emails differ after trimming and case
\* folding, or with no email on either side the trimmed names differ, or
\* exactly one side has an email.
C13_DelegationTable ==
    parsePc \in {"parsed", "done"} =>
        /\ (parsed.sender # Undefined) <=> DelegationTable(ActualIdentity, RepresentedIdentity)
        /\ DelegationTable(ActualIdentity, RepresentedIdentity) =>
              /\ parsed.from = FormatSender(RepresentedIdentity.email, RepresentedIdentity.name)
              /\ parsed.sender = FormatSender(ActualIdentity.email, ActualIdentity.name)

\* A parsed message whose two addresses are not the same text and that is
\* not delegated: they differ in case and white space only.
C13_Witness ==
    /\ parsePc = "parsed"
    /\ Truthy(ActualIdentity.email) /\ Truthy(RepresentedIdentity.email)
    /\ ActualIdentity.email # RepresentedIdentity.email
    /\ parsed.sender = Undefined

\* C14: the email of every resolved recipient is not empty, and it is the
\* display name when the record has no address.
C14_EmailNeverEmpty ==
    \A k \in DOMAIN mapped :
        /\ mapped[k].email # <<>>
        /\ (~Truthy(msg.recipients[k].smtpAddress) /\ ~Truthy(msg.recipients[k].emailAddress))
              => mapped[k].email = msg.recipients[k].displayName

\* The To, Cc and Bcc entries of the transport header block of a message.
TransportEntries(m) ==
    IF Truthy(m.transportMessageHeaders)
    THEN ParseRecipientsFromTransportHeaders(m.transportMessageHeaders)
    ELSE TransportRecipients(<<>>, <<>>, <<>>)

\* The first available of: the SMTP address, the legacy address, the
\* address of the transport entry with the recipient's name, the name.
PreferredEmail(recipient, m) ==
    LET name == OrElse(recipient.displayName, <<>>)
        match == ResolveEmailFromTransportHeaders(
                     name, GetRecipientType(recipient.recipientType), TransportEntries(m)).email
    IN  IF Truthy(recipient.smtpAddress) THEN recipient.smtpAddress
        ELSE IF Truthy(recipient.emailAddress) THEN recipient.emailAddress
        ELSE IF match # Undefined THEN match
        ELSE name

\* C15: the email of every recipient that came through the pipeline is the
\* first available of its SMTP address, its legacy address, the address of
\* the transport To/Cc/Bcc entry with its display name (own bucket first),
\* and its display name.
C15_EmailPreference ==
    \A k \in DOMAIN mapped : mapped[k].email = PreferredEmail(msg.recipients[k], msg)


\* The lines of a header text that start a header: not empty, not a
\* continuation line, with a colon in them.
StartsHeader(line) ==
    /\ line # <<>>
    /\ line[1] \notin {SP, TAB}
    /\ \E k \in DOMAIN line : line[k] = COLON

\* The name of such a line, in lower case.
FieldName(line) ==
    ToLowerCase(SubSeq(line, 1, (CHOOSE k \in DOMAIN line :
                                    line[k] = COLON /\ \A j \in 1..(k - 1) : line[j] # COLON) - 1))

\* The names of the header lines in a header text.
FieldNames(headerText) ==
    {FieldName(HeaderBlockLines(headerText)[k]) :
        k \in {j \in DOMAIN HeaderBlockLines(headerText) :
                  StartsHeader(HeaderBlockLines(headerText)[j])}}

\* How many header lines of a header text have this name.
Occurrences(headerText, name) ==
    Cardinality({k \in DOMAIN HeaderBlockLines(headerText) :
                    /\ StartsHeader(HeaderBlockLines(headerText)[k])
                    /\ FieldName(HeaderBlockLines(headerText)[k]) = name})

\* The names of the headers that eml.ts 38-77 generates for message p.
GeneratedNames(p) == FieldNames(Document(EmlHeaders(p)))

\* C16: with a transport header block in the message, each transport header
\* whose name was not generated is in the header section of the document,
\* and each generated header name occurs there exactly once.
C16_TransportHeadersFiltered ==
    (parsePc = "done" /\ parsed.headers.defined
        /\ Truthy(parsed.headers.transportMessageHeaders)) =>
        LET block == HeaderBlockLines(parsed.headers.transportMessageHeaders)
            section == HeaderSection(eml)
        IN  /\ \A k \in DOMAIN block :
                  (StartsHeader(block[k]) /\ FieldName(block[k]) \notin GeneratedNames(parsed))
                      => \E j \in DOMAIN HeaderBlockLines(section) :
                            HeaderBlockLines(section)[j] = block[k]
            /\ \A name \in GeneratedNames(parsed) : Occurrences(section, name) = 1

\* The From line of the transport header block of the message, if it has one.
TransportFromLine ==
    IF Truthy(msg.transportMessageHeaders)
    THEN ParseFromTransportHeaders(msg.transportMessageHeaders)
    ELSE [found |-> FALSE, email |-> Undefined, name |-> Undefined]

\* C17: a parsed message whose actual and represented sender have neither
\* email nor name has the identity of the From line of its transport header
\* block as From, and the placeholder address only when there is no such line.
C17_FromTransportLine ==
    (parsePc \in {"parsed", "done"}
        /\ EmptyIdentity(ActualIdentity) /\ EmptyIdentity(RepresentedIdentity)) =>
        IF TransportFromLine.found
        THEN parsed.from = FormatSender(TransportFromLine.email, TransportFromLine.name)
        ELSE parsed.from = UnknownAddress

\* C18: extractBodyFromRtf never throws and returns null or a body record:
\* null for an empty or absent property and when decompression throws; when
\* de-encapsulation throws, the text the manual scanner finds, and null only
\* if it finds none. The parsed message has the body it returns.
C18_RtfNeverThrows ==
    parsePc \in {"parsed", "done"} =>
        LET result == ExtractBodyFromRtf(msg.rtf)
            scanned == ExtractPlainTextFromRtf(msg.rtf.rtfString)
        IN  /\ ~result.threw
            /\ result.value.isNull \/ result.value.text \in Seq(0..65535)
            /\ msg.rtf.bytes \in {"absent", "empty"} => result.value.isNull
            /\ (msg.rtf.bytes = "data" /\ msg.rtf.decompressThrows) => result.value.isNull
            /\ (msg.rtf.bytes = "data" /\ ~msg.rtf.decompressThrows /\ msg.rtf.mode = "throws")
                  => /\ result.value.isNull <=> scanned = <<>>
                     /\ ~result.value.isNull => result.value.text = scanned
            /\ (msg.rtf.bytes = "data" /\ ~result.value.isNull)
                  => parsed.body = result.value.text

\* A parsed message whose body the manual scanner found after
\* de-encapsulation threw.
C18_Witness ==
    /\ parsePc = "parsed"
    /\ msg.rtf.bytes = "data" /\ ~msg.rtf.decompressThrows /\ msg.rtf.mode = "throws"
    /\ parsed.body = <<82, 10, 233>>

\* The message with the properties that cannot be resolved left out.
WithoutUnresolved(m) ==
    [f \in DOMAIN m |->
        IF f = "unresolved" THEN {}
        ELSE IF f \in m.unresolved THEN EmptyMsg[f]
        ELSE m[f]]

\* C19: a named property that the collaborator cannot resolve is skipped:
\* reading the properties never throws, and the parsed message is that of
\* the same message without the property.
C19_PropertySkipped ==
    /\ (parsePc = "threw" /\ Len(mapped) = Len(msg.recipients)) => msg.unresolved = {}
    /\ parsePc \in {"parsed", "done"} => parsed = ParseMsgFromMsg(WithoutUnresolved(msg), mapped)

-----------------------------------------------------------------------------
(* Termination of the encoders and of the folder *)

\* Line limits for the runs that must end: not larger than the header name
\* (To, two characters), and one that leaves room for a few characters.
ShortLimits == {1, 2, 7}

FoldShortInit ==
    /\ valueTokens \in TokenSeqs
    /\ headerName = NameTo
    /\ headerValue = Flatten(valueTokens)
    /\ maxLineLength \in ShortLimits
    /\ lines = <<>> /\ currentLine = <<>> /\ remaining = <<>>
    /\ isFirstSegment = FALSE
    /\ foldPc = "start" /\ foldResult = <<>>

\* File names: ASCII that is kept, ASCII that is escaped, two-byte and
\* four-byte characters.
NamePieces == {<<97>>, <<46>>, <<SP>>, <<233>>, <<55357, 56395>>}
MaxNamePieces == 3
Filenames == {Flatten(ps) : ps \in UNION {[1..n -> NamePieces] : n \in 0..MaxNamePieces}}

Rfc2231Prefix == <<85, 84, 70, 45, 56, APOSTROPHE, APOSTROPHE>>      \* UTF-8''

\* encodeRfc2231 runs on the variables of the encoder: text is the file name,
\* encI the number of bytes consumed, encWords the encoded bytes so far.
\* filename.ts 13-15
Rfc2231Init ==
    /\ text \in Filenames
    /\ encI = 0 /\ encWords = <<>> /\ encPc = "bytes" /\ encResult = <<>>

\* filename.ts 17-34: one iteration of the for loop
Rfc2231Step ==
    /\ encPc = "bytes"
    /\ encI < Len(TextEncode(text))
    /\ LET byte == TextEncode(text)[encI + 1]
       IN  encWords' = Append(encWords,
               IF \/ (byte >= 48 /\ byte <= 57)
                  \/ (byte >= 65 /\ byte <= 90)
                  \/ (byte >= 97 /\ byte <= 122)
                  \/ byte \in {45, 46, 95}
               THEN <<byte>>
               ELSE <<37>> \o Hex2(byte))
    /\ encI' = encI + 1
    /\ UNCHANGED <<text, encPc, encResult>>
    /\ UNCHANGED <<foldVars, emlVars, parseVars>>
    /\ UNCHANGED clientVars

\* filename.ts 36
Rfc2231Return ==
    /\ encPc = "bytes"
    /\ ~(encI < Len(TextEncode(text)))
    /\ encResult' = Rfc2231Prefix \o Flatten(encWords)
    /\ encPc' = "returned"
    /\ UNCHANGED <<text, encI, encWords>>
    /\ UNCHANGED <<foldVars, emlVars, parseVars>>
    /\ UNCHANGED clientVars

Rfc2231Next == Rfc2231Step \/ Rfc2231Return

\* One call of one of the functions.
InitCall ==
    /\ \/ FoldShortInit /\ EncIdle
       \/ FoldInit /\ EncIdle
       \/ EncInit /\ FoldIdle
       \/ Rfc2231Init /\ FoldIdle
    /\ EmlIdle /\ ParseIdle /\ ClientIdle
CallNext == FoldNext \/ EncNext \/ Rfc2231Next
SpecCall == InitCall /\ [][CallNext]_vars

\* What a call still has to do: the characters the folder has not placed, the
\* characters the chunker has not encoded, the bytes encodeRfc2231 has not
\* written; one more while the return statement is ahead, nothing after it.
Pending ==
    CASE foldPc = "start" -> Len(headerValue) + 2
      [] foldPc = "loop" -> Len(remaining) + 1
      [] encPc = "start" -> Len(text) + 2
      [] encPc = "chunking" -> Len(text) - encI + 1
      [] encPc = "bytes" -> Len(TextEncode(text)) - encI + 1
      [] OTHER -> 0

\* The state after the loop body of foldHeader has run once more.
AfterFoldIteration ==
    FoldIteration([lines |-> lines, currentLine |-> currentLine,
                   remaining |-> remaining,
                   isFirstSegment |-> isFirstSegment], maxLineLength)

\* Each pass of a loop leaves less to do and stays within the input; a call
\* is only ever at a statement of the function, none of which throws; a call
\* with nothing left to do has returned its value.
CallState ==
    /\ Pending \in 0..(4 * Len(text) + Len(headerValue) + 2)
    /\ (foldPc = "loop" /\ Len(remaining) > 0) =>
            Len(AfterFoldIteration.remaining) < Len(remaining)
    /\ (encPc = "chunking" /\ encI < Len(text)) =>
            /\ ChunkScan(text, encI, <<>>, 0).i > encI
            /\ ChunkScan(text, encI, <<>>, 0).i <= Len(text)
    /\ encPc = "bytes" => (encI <= Len(TextEncode(text)) /\ Len(encWords) = encI)
    /\ foldPc \in {"off", "start", "loop", "done"}
    /\ encPc \in {"off", "start", "chunking", "bytes", "done", "returned"}
    /\ Pending = 0 <=> (foldPc \in {"off", "done"} /\ encPc \in {"off", "done", "returned"})
    /\ foldPc = "done" => (Len(foldResult) >= 1 /\ Join(foldResult, <<>>) # <<>>)
    /\ encPc = "done" => (encResult = <<>> <=> text = <<>>)
    /\ encPc = "returned" => encResult = Rfc2231Prefix \o EncodeRfc2231(text)

\* C20: every call of foldHeader, encodeRfc2047 (with its chunker) and
\* encodeRfc2231 terminates and returns a value, for every input and every line
\* limit, and has no error path: what is pending is a natural number that
\* every step of a call makes smaller, so a call takes finitely many steps,
\* and it is zero exactly when the call has returned.
C20_AlwaysReturns == []CallState /\ [][Pending' < Pending]_vars

\* A fold that has returned, with a limit not larger than the header name and
\* a value that has no break point.
C20_Witness ==
    /\ foldPc = "done"
    /\ maxLineLength <= Len(headerName)
    /\ Len(headerValue) > 0
    /\ FindFirstBreakPoint(headerValue) = -1

-----------------------------------------------------------------------------
(* The boundaries of one produced document *)

BoundaryPrefix == <<45, 45, 45, 45, 61, 95, 80, 97, 114, 116, 95>>     \* ----=_Part_

\* What Math.random() can return, as the digits of its fraction in base 36:
\* 0, 0.k, 0.k3 and 0.z
RandomDigits == {<<>>, <<107>>, <<107, 51>>, <<122>>}

\* Math.random().toString(36)
RandomToString(digits) == IF digits = <<>> THEN <<48>> ELSE <<48, 46>> \o digits

\* utils.ts 1-3
GenerateBoundary(digits) == BoundaryPrefix \o Substring(RandomToString(digits), 2, 15)

\* The documents that go into one produced document: the message and the
\* embedded messages, each converted by its own call of convertToEml.
MaxDocuments == 2

\* The calls of generateBoundary run on the variables of the encoder:
\* encWords holds the boundaries in the order of the calls, three for each
\* convertToEml (mixed, related, alternative), those of an embedded message
\* before those of the message that holds it; encI counts the calls of
\* convertToEml that have drawn their three.
BoundaryInit ==
    /\ text = <<>> /\ encI = 0 /\ encWords = <<>> /\ encPc = "boundaries"
    /\ encResult = <<>>

\* eml.ts 20-22: one call of generateBoundary
BoundaryDraw ==
    /\ encPc = "boundaries"
    /\ Len(encWords) < 3 * MaxDocuments
    /\ \E digits \in RandomDigits :
           encWords' = Append(encWords, GenerateBoundary(digits))
    /\ encI' = Len(encWords') \div 3
    /\ UNCHANGED <<text, encPc, encResult>>
    /\ UNCHANGED <<foldVars, emlVars, parseVars>>
    /\ UNCHANGED clientVars

\* eml.ts 146: the outermost convertToEml returns the document.
BoundaryDocumentReturned ==
    /\ encPc = "boundaries"
    /\ encI >= 1 /\ Len(encWords) = 3 * encI
    /\ encPc' = "assembled"
    /\ UNCHANGED <<text, encI, encWords, encResult>>
    /\ UNCHANGED <<foldVars, emlVars, parseVars>>
    /\ UNCHANGED clientVars

BoundaryNext == BoundaryDraw \/ BoundaryDocumentReturned
InitBoundary == BoundaryInit /\ FoldIdle /\ EmlIdle /\ ParseIdle /\ ClientIdle
SpecBoundary == InitBoundary /\ [][BoundaryNext]_vars

\* C21: the boundaries of one produced document, those of the embedded
\* documents in it included, are pairwise distinct.
C21_BoundariesDistinct ==
    encPc = "assembled" =>
        \A i, j \in DOMAIN encWords : i # j => encWords[i] # encWords[j]

-----------------------------------------------------------------------------
(* Folding one content line of the calendar, one push per step *)

ICalRunLength == 40
MaxICalPieces == 3

\* Values of a summary, a location or an attendee name: ASCII, a comma, two-
\* and three-byte characters, alone and in runs.
ICalPieces == {<<97>>, <<COMMA>>, <<233>>, Repeat(<<97>>, ICalRunLength),
               Repeat(<<233>>, ICalRunLength), Repeat(<<26085>>, ICalRunLength - 10)}
ICalValues == {Flatten(ps) : ps \in UNION {[1..n -> ICalPieces] : n \in 0..MaxICalPieces}}

\* part_000 142, 149, 165: the content lines that are handed to foldICalLine
ICalContentLines ==
    {SummaryPrefix \o EscapeICalText(v) : v \in ICalValues}
    \cup {LocationPrefix \o EscapeICalText(v) : v \in ICalValues}
    \cup {AttendeeCn \o EscapeICalText(v) \o NoReply : v \in ICalValues}

\* foldICalLine runs on the variables of the encoder: text is what remains of
\* the line, encWords is result, encResult the returned string.
ICalInit ==
    /\ text \in ICalContentLines
    /\ encI = 0 /\ encWords = <<>> /\ encPc = "line" /\ encResult = <<>>

\* part_002 44-46
ICalReturnShort ==
    /\ encPc = "line"
    /\ Len(text) <= ICalFirstLine
    /\ encResult' = text
    /\ encPc' = "folded"
    /\ UNCHANGED <<text, encI, encWords>>
    /\ UNCHANGED <<foldVars, emlVars, parseVars>>
    /\ UNCHANGED clientVars

\* part_002 48-53: the first line
ICalPushFirst ==
    /\ encPc = "line"
    /\ Len(text) > ICalFirstLine
    /\ encWords' = <<Substring(text, 0, ICalFirstLine)>>
    /\ text' = SubstringFrom(text, ICalFirstLine)
    /\ encPc' = "rest"
    /\ UNCHANGED <<encI, encResult>>
    /\ UNCHANGED <<foldVars, emlVars, parseVars>>
    /\ UNCHANGED clientVars

\* part_002 56-59: one continuation line
ICalPushNext ==
    /\ encPc = "rest"
    /\ Len(text) > 0
    /\ encWords' = Append(encWords, <<SP>> \o Substring(text, 0, ICalNextLine))
    /\ text' = SubstringFrom(text, ICalNextLine)
    /\ UNCHANGED <<encI, encPc, encResult>>
    /\ UNCHANGED <<foldVars, emlVars, parseVars>>
    /\ UNCHANGED clientVars

\* part_002 61
ICalReturnJoined ==
    /\ encPc = "rest"
    /\ Len(text) = 0
    /\ encResult' = Join(encWords, <<CR, LF>>)
    /\ encPc' = "folded"
    /\ UNCHANGED <<text, encI, encWords>>
    /\ UNCHANGED <<foldVars, emlVars, parseVars>>
    /\ UNCHANGED clientVars

ICalNext == ICalReturnShort \/ ICalPushFirst \/ ICalPushNext \/ ICalReturnJoined
InitICal == ICalInit /\ FoldIdle /\ EmlIdle /\ ParseIdle /\ ClientIdle
SpecICal == InitICal /\ [][ICalNext]_vars

\* The physical lines of a folded content line.
PhysicalLines(content) == Split(WithoutCrBeforeLf(content), LF)

Octets(str) == Len(TextEncode(str))

\* C22: every physical line of a folded content line is at most 75 octets
\* long in UTF-8; the first is full width when there is a second, and every
\* continuation line starts with one space.
C22_ICalLineOctets ==
    encPc = "folded" =>
        LET physical == PhysicalLines(encResult)
        IN  /\ \A k \in DOMAIN physical : Octets(physical[k]) <= ICalFirstLine
            /\ Len(physical) > 1 => Len(physical[1]) = ICalFirstLine
            /\ \A k \in 2..Len(physical) :
                   physical[k][1] = SP /\ Len(physical[k]) >= 2

\* The same for content lines of ASCII characters only, and the count in
\* characters for all.
C22_ICalLineCharacters ==
    encPc = "folded" =>
        LET physical == PhysicalLines(encResult)
        IN  /\ \A k \in DOMAIN physical : Len(physical[k]) <= ICalFirstLine
            /\ IsAscii(encResult) =>
                   \A k \in DOMAIN physical : Octets(physical[k]) <= ICalFirstLine
            /\ Len(physical) > 1 => Len(physical[1]) = ICalFirstLine
            /\ \A k \in 2..Len(physical) :
                   physical[k][1] = SP /\ Len(physical[k]) >= 2

-----------------------------------------------------------------------------
(* Recipient lists of the transport headers: content.ts 46-144 *)

\* One address as it is written in a header, with the e-mail address that it
\* carries.
BareEntry == [written |-> <<97, AT, 120>>, email |-> <<97, AT, 120>>]
NamedEntry == [written |-> <<66, SP, LT, 98, AT, 120, GT>>, email |-> <<98, AT, 120>>]
QuotedEntry ==
    [written |-> <<QUOTE, 68, COMMA, SP, 74, QUOTE, SP, LT, 106, AT, 120, GT>>,
     email |-> <<106, AT, 120>>]
AngleCommaEntry == [written |-> <<LT, 99, COMMA, 100, AT, 120, GT>>, email |-> <<99, COMMA, 100, AT, 120>>]
\* "O\"R, P" <o@x>: a quoted display name with an escaped double quote
EscapedQuoteEntry ==
    [written |-> <<QUOTE, 79, BACKSLASH, QUOTE, 82, COMMA, SP, 80, QUOTE, SP, LT, 111, AT, 120, GT>>,
     email |-> <<111, AT, 120>>]
\* the quoted display name folded at its space
FoldedQuotedEntry ==
    [written |-> <<QUOTE, 68, COMMA, CR, LF, SP, 74, QUOTE, SP, LT, 106, AT, 120, GT>>,
     email |-> <<106, AT, 120>>]
TabFoldedQuotedEntry ==
    [written |-> <<QUOTE, 68, COMMA, CR, LF, TAB, 74, QUOTE, SP, LT, 106, AT, 120, GT>>,
     email |-> <<106, AT, 120>>]

EntryChoices ==
    {BareEntry, NamedEntry, QuotedEntry, AngleCommaEntry, EscapedQuoteEntry,
     FoldedQuotedEntry, TabFoldedQuotedEntry}

\* What stands between two addresses: a comma, then a space or a fold.
EntrySeparators == {<<COMMA, SP>>, <<COMMA, CR, LF, SP>>, <<COMMA, CR, LF, TAB>>}

MaxEntries == 3

EntryLists == UNION {[1..n -> EntryChoices] : n \in 1..MaxEntries}

RECURSIVE WrittenList(_, _)
WrittenList(entries, seps) ==
    IF Len(entries) = 1 THEN entries[1].written
    ELSE entries[1].written \o seps[1] \o WrittenList(Tail(entries), Tail(seps))

\* "To: " value CRLF "Subject: S" CRLF
RecipientBlock(value) ==
    <<84, 111, COLON, SP>> \o value \o <<CR, LF, 83, 117, 98, 106, 101, 99, 116, COLON, SP, 83, CR, LF>>

RecipientHeaders ==
    {[block |-> RecipientBlock(WrittenList(entries, seps)),
      emails |-> [k \in DOMAIN entries |-> entries[k].email],
      escaped |-> \E k \in DOMAIN entries : entries[k] = EscapedQuoteEntry] :
        <<entries, seps>> \in UNION {{<<e, s>> : s \in [1..(Len(e) - 1) -> EntrySeparators]} :
                                         e \in EntryLists}}

\* parseRecipientsFromTransportHeaders runs on the variables of the encoder:
\* text is transportHeaders, encResult is toValue and encWords the list
\* returned for To.
RecipientsInit ==
    /\ text \in {h.block : h \in RecipientHeaders}
    /\ encI = 0 /\ encWords = <<>> /\ encPc = "header" /\ encResult = <<>>

\* content.ts 135: extractHeaderValue(transportHeaders, "To")
RecipientsExtract ==
    /\ encPc = "header"
    /\ encResult' = ExtractHeaderValue(text, <<84, 111>>)
    /\ encPc' = "value"
    /\ UNCHANGED <<text, encI, encWords>>
    /\ UNCHANGED <<foldVars, emlVars, parseVars>>
    /\ UNCHANGED clientVars

\* content.ts 140: toValue ? parseAddressHeaderValue(toValue) : []
RecipientsParse ==
    /\ encPc = "value"
    /\ encWords' = IF Truthy(encResult) THEN ParseAddressHeaderValue(encResult) ELSE <<>>
    /\ encPc' = "recipients"
    /\ UNCHANGED <<text, encI, encResult>>
    /\ UNCHANGED <<foldVars, emlVars, parseVars>>
    /\ UNCHANGED clientVars

RecipientsNext == RecipientsExtract \/ RecipientsParse
InitRecipients == RecipientsInit /\ FoldIdle /\ EmlIdle /\ ParseIdle /\ ClientIdle
SpecRecipients == InitRecipients /\ [][RecipientsNext]_vars

\* The unfolded form of a header block: every CRLF that a space or a tab
\* follows is removed.
Unfolded(str) ==
    Flatten([k \in DOMAIN str |->
        IF str[k] = CR /\ k + 2 <= Len(str) /\ str[k + 1] = LF /\ str[k + 2] \in {SP, TAB}
        THEN <<>>
        ELSE IF str[k] = LF /\ k > 1 /\ k < Len(str) /\ str[k - 1] = CR /\ str[k + 1] \in {SP, TAB}
        THEN <<>>
        ELSE <<str[k]>>])

EmailsOf(addresses) == [k \in DOMAIN addresses |-> addresses[k].email]

RecipientsOf(block) == ParseRecipientsFromTransportHeaders(block).to

\* C23: the To value is split into its addresses exactly at the commas that
\* stand outside double quotes and outside angle brackets, so the list has
\* the addresses that were written, in order; and a folded value gives the
\* list of its unfolded form.
C23_SplitsAtOuterCommas ==
    encPc = "recipients" =>
        /\ \A h \in RecipientHeaders : h.block = text => EmailsOf(encWords) = h.emails
        /\ encWords = RecipientsOf(Unfolded(text))

\* The same for values whose quoted names hold no escaped double quote, the
\* folded form compared with the unfolded one by the addresses.
C23_SplitsPlainQuotes ==
    encPc = "recipients" =>
        \A h \in RecipientHeaders :
            h.block = text /\ ~h.escaped =>
                /\ EmailsOf(encWords) = h.emails
                /\ EmailsOf(encWords) = EmailsOf(RecipientsOf(Unfolded(text)))

\* Values without an escaped double quote and without a fold by a tab inside
\* a quoted name are listed as their unfolded form is listed.
C23_FoldedAsUnfolded ==
    encPc = "recipients" =>
        \A h \in RecipientHeaders :
            h.block = text /\ ~h.escaped =>
                \/ \E k \in 4..(Len(text) - 1) :
                       text[k] = TAB /\ text[k - 3] = COMMA /\ text[k + 1] = 74
                \/ encWords = RecipientsOf(Unfolded(text))

-----------------------------------------------------------------------------
(* Groups that the RTF scanner skips: part_003 58-143 *)

HiddenChar == 120
VisibleChar == 118

FonttblWord == <<BACKSLASH, 102, 111, 110, 116, 116, 98, 108, SP>>
InfoWord == <<BACKSLASH, 105, 110, 102, 111, SP>>
ObjectWord == <<BACKSLASH, 111, 98, 106, 101, 99, 116, SP>>
PictWord == <<BACKSLASH, 112, 105, 99, 116, SP>>
BoldWord == <<BACKSLASH, 98, SP>>

\* A piece of RTF with the text of it that stands outside every skip-listed
\* group: x is written inside such groups only, v outside only.
RtfPieces ==
    { [kind |-> "text", rtf |-> <<VisibleChar>>, visible |-> <<VisibleChar>>],
      \* {\b v}
      [kind |-> "group", rtf |-> <<LBRACE>> \o BoldWord \o <<VisibleChar, RBRACE>>,
       visible |-> <<VisibleChar>>],
      \* {\fonttbl x}
      [kind |-> "skipped", rtf |-> <<LBRACE>> \o FonttblWord \o <<HiddenChar, RBRACE>>,
       visible |-> <<>>],
      \* {\info {\b x}x}
      [kind |-> "nested",
       rtf |-> <<LBRACE>> \o InfoWord \o <<LBRACE>> \o BoldWord \o <<HiddenChar, RBRACE, HiddenChar, RBRACE>>,
       visible |-> <<>>],
      \* {\object {\pict x}x}
      [kind |-> "nestedSkipped",
       rtf |-> <<LBRACE>> \o ObjectWord \o <<LBRACE>> \o PictWord \o <<HiddenChar, RBRACE, HiddenChar, RBRACE>>,
       visible |-> <<>>],
      \* {\info x\}x}
      [kind |-> "escapedBrace",
       rtf |-> <<LBRACE>> \o InfoWord \o <<HiddenChar, BACKSLASH, RBRACE, HiddenChar, RBRACE>>,
       visible |-> <<>>],
      \* a closing brace that closes nothing
      [kind |-> "strayClose", rtf |-> <<RBRACE>>, visible |-> <<>>],
      \* an opening brace that is never closed
      [kind |-> "strayOpen", rtf |-> <<LBRACE>>, visible |-> <<>>] }

MaxRtfPieces == 3

RtfPieceLists == UNION {[1..n -> RtfPieces] : n \in 1..MaxRtfPieces}

RtfDocuments ==
    {[rtf |-> Flatten([k \in DOMAIN pieces |-> pieces[k].rtf]),
      visible |-> Flatten([k \in DOMAIN pieces |-> pieces[k].visible]),
      kinds |-> {pieces[k].kind : k \in DOMAIN pieces}] : pieces \in RtfPieceLists}

\* extractPlainTextFromRtf runs on the variables of the encoder: text is rtf,
\* encResult the returned text.
RtfScanInit ==
    /\ text \in {d.rtf : d \in RtfDocuments}
    /\ encI = 0 /\ encWords = <<>> /\ encPc = "rtf" /\ encResult = <<>>

\* part_003 58-143
RtfScanReturn ==
    /\ encPc = "rtf"
    /\ encResult' = ExtractPlainTextFromRtf(text)
    /\ encPc' = "plain"
    /\ UNCHANGED <<text, encI, encWords>>
    /\ UNCHANGED <<foldVars, emlVars, parseVars>>
    /\ UNCHANGED clientVars

RtfScanNext == RtfScanReturn
InitRtfScan == RtfScanInit /\ FoldIdle /\ EmlIdle /\ ParseIdle /\ ClientIdle
SpecRtfScan == InitRtfScan /\ [][RtfScanNext]_vars

\* C24: no character of a skip-listed group, at any depth, is in the text
\* that the scanner returns, and everything after the closing brace of the
\* group is read as before it: the text is what stands outside the groups.
C24_SkippedGroupsHidden ==
    encPc = "plain" =>
        /\ \A k \in DOMAIN encResult : encResult[k] # HiddenChar
        /\ \A d \in RtfDocuments : d.rtf = text => encResult = d.visible

\* The same for balanced documents whose skip-listed groups hold no other
\* skip-listed group and no escaped brace.
C24_PlainGroupsHidden ==
    encPc = "plain" =>
        \A d \in RtfDocuments :
            d.rtf = text /\ d.kinds \subseteq {"text", "group", "skipped", "nested", "strayOpen"} =>
                encResult = d.visible

-----------------------------------------------------------------------------
(* Attachment parts of the document: eml.ts 13-18, 80-144 *)

\* The attachment parts of the document, each as the content type and the
\* file name parameter of its first line, in the order of the document.
AttachmentPartsOf(pieces) ==
    LET firstLines == SelectSeq(pieces, LAMBDA piece : piece.kind = "parttype")
    IN  [k \in DOMAIN firstLines |-> <<firstLines[k].s, firstLines[k].codes>>]

\* What the first line of the part of attachment att says.
PartLabel(att) == <<att.contentType, FormatFilenameParams(att.fileName).value>>

\* How often x occurs in the sequence.
CountIn(seq, x) == Cardinality({k \in DOMAIN seq : seq[k] = x})

\* C25: each attachment of the parsed message has exactly one attachment part
\* in the document, whichever structure is written.
C25_EveryAttachmentOnce ==
    emlPc = "done" =>
        LET labels == [k \in DOMAIN parsed.attachments |-> PartLabel(parsed.attachments[k])]
        IN  /\ Len(AttachmentPartsOf(eml)) = Len(parsed.attachments)
            /\ \A k \in DOMAIN labels :
                   CountIn(AttachmentPartsOf(eml), labels[k]) = CountIn(labels, labels[k])

\* The same for messages that have an HTML body or no attachment with a
\* content id.
C25_OnceWithHtmlOrNoInline ==
    (emlPc = "done" /\ (HasHtml(parsed) \/ ~HasInlineAttachments(parsed))) =>
        LET labels == [k \in DOMAIN parsed.attachments |-> PartLabel(parsed.attachments[k])]
        IN  /\ Len(AttachmentPartsOf(eml)) = Len(parsed.attachments)
            /\ \A k \in DOMAIN labels :
                   CountIn(AttachmentPartsOf(eml), labels[k]) = CountIn(labels, labels[k])

\* A calendar message without HTML body whose attachments with a content
\* id are in no part of the document.
C25_InlineDropped ==
    /\ emlPc = "done" /\ HasCalendar(parsed) /\ ~HasHtml(parsed)
    /\ HasInlineAttachments(parsed)
    /\ Len(AttachmentPartsOf(eml)) = Len(RegularAttachments(parsed))

-----------------------------------------------------------------------------
(* Nesting of the multipart containers: eml.ts 20-22, 82-144, parts.ts 33-57 *)

\* The messages whose structure is written: every combination of HTML body,
\* calendar event and attachments.
NestMsgs ==
    [subject : {<<83>>}, from : {AddressA}, sender : {Undefined},
     recipients : {<<>>}, date : {"deliveryTime"}, body : {<<72, 105>>},
     bodyHtml : {Undefined, <<60, 98, 62>>},
     attachments : EmlAttachmentSeqs,
     headers : {NoHeaders},
     calendarEvent : EmlCalendarInputs]

\* The document with the boundaries that generateBoundary returned:
\* drawn[1] is mixedBoundary, drawn[2] relatedBoundary, drawn[3] altBoundary.
WithBoundaries(pieces, drawn) ==
    [k \in DOMAIN pieces |->
        IF pieces[k].kind \in {"multipart", "delimiter", "close"}
        THEN [pieces[k] EXCEPT !.b = IF @ = MixedBoundary THEN drawn[1]
                                     ELSE IF @ = RelatedBoundary THEN drawn[2]
                                     ELSE drawn[3]]
        ELSE pieces[k]]

\* convertToEml runs on parsed and eml; encWords holds the three boundaries.
NestInit ==
    /\ parsed \in NestMsgs /\ eml = <<>> /\ emlPc = "boundaries"

\* eml.ts 20-22
NestDraw ==
    /\ emlPc = "boundaries"
    /\ \E mixed \in RandomDigits, related \in RandomDigits, alt \in RandomDigits :
           encWords' = <<GenerateBoundary(mixed), GenerateBoundary(related),
                         GenerateBoundary(alt)>>
    /\ emlPc' = "drawn"
    /\ UNCHANGED <<parsed, eml, text, encI, encPc, encResult>>
    /\ UNCHANGED <<foldVars, parseVars>>
    /\ UNCHANGED clientVars

\* eml.ts 36-146
NestWrite ==
    /\ emlPc = "drawn"
    /\ eml' = WithBoundaries(ConvertToEml(parsed), encWords)
    /\ emlPc' = "nested"
    /\ UNCHANGED <<parsed, encVars, foldVars, parseVars>>
    /\ UNCHANGED clientVars

NestNext == NestDraw \/ NestWrite
InitNest == NestInit /\ FoldIdle /\ EncIdle /\ ParseIdle /\ ClientIdle
SpecNest == InitNest /\ [][NestNext]_vars

\* Where the containers are declared, and the lines --b and --b--.
Declarations(pieces) == {k \in DOMAIN pieces : pieces[k].kind = "multipart"}
DelimitersOf(pieces, b) == {k \in DOMAIN pieces : pieces[k].kind = "delimiter" /\ pieces[k].b = b}
ClosesOf(pieces, b) == {k \in DOMAIN pieces : pieces[k].kind = "close" /\ pieces[k].b = b}

\* The first line of a body part.
StartsPart(piece) ==
    \/ piece.kind \in {"parttype", "multipart"}
    \/ /\ piece.kind = "line"
       /\ piece.s \in {"Content-Type: text/plain; charset=\"utf-8\"",
                       "Content-Type: text/html; charset=\"utf-8\"",
                       "Content-Type: text/calendar; charset=\"utf-8\"; method=REQUEST"}

\* The container declared at d is closed at c and holds index k.
Holds(pieces, d, c, k) == d < k /\ k < c

\* The container declared at d, with its one closing line at c.
ContainerNested(pieces, d, c) ==
    LET b == pieces[d].b
    IN  /\ c > d
        /\ DelimitersOf(pieces, b) # {}
        /\ \A k \in DelimitersOf(pieces, b) : Holds(pieces, d, c, k)
        \* a container declared inside is closed inside, with no line of b in it
        /\ \A d2 \in Declarations(pieces) :
               Holds(pieces, d, c, d2) =>
                   \E c2 \in ClosesOf(pieces, pieces[d2].b) :
                       /\ Holds(pieces, d2, c, c2)
                       /\ \A k \in (d2 + 1)..c2 :
                              k \notin DelimitersOf(pieces, b) \cup ClosesOf(pieces, b)

WellNested(pieces, top) ==
    /\ \A d \in Declarations(pieces) :
           /\ Cardinality(ClosesOf(pieces, pieces[d].b)) = 1
           /\ ContainerNested(pieces, d, CHOOSE c \in ClosesOf(pieces, pieces[d].b) : TRUE)
    \* every part but the document itself follows a delimiter line
    /\ \A k \in DOMAIN pieces :
           (StartsPart(pieces[k]) /\ k # top) => (k > 1 /\ pieces[k - 1].kind = "delimiter")
    \* every delimiter line belongs to a declared container
    /\ \A k \in DOMAIN pieces :
           pieces[k].kind \in {"delimiter", "close"} =>
               \E d \in Declarations(pieces) : d < k /\ pieces[d].b = pieces[k].b

\* C26: every container of the document, declared with boundary b, has its
\* parts introduced by --b, is closed by exactly one --b-- after all of them,
\* and a container inside it is closed before the next --b or --b--.
C26_WellNested ==
    emlPc = "nested" => WellNested(eml, Len(EmlHeaders(parsed)) + 1)

\* The same for documents whose three boundaries differ.
C26_WellNestedWhenDistinct ==
    (emlPc = "nested" /\ Cardinality({encWords[k] : k \in DOMAIN encWords}) = 3) =>
        WellNested(eml, Len(EmlHeaders(parsed)) + 1)

-----------------------------------------------------------------------------
(* Parts labelled 7bit: parts.ts 23-31, 72-79, part_000 132-177 *)

SevenBitLabel == Line("Content-Transfer-Encoding: 7bit")

\* Piece k belongs to a part labelled 7bit: the label stands before it with
\* no boundary line between them.
InSevenBitPart(pieces, k) ==
    \E j \in 1..(k - 1) :
        /\ pieces[j] = SevenBitLabel
        /\ \A i \in (j + 1)..k : pieces[i].kind \notin {"delimiter", "close"}

AsciiOnly(str) == \A k \in DOMAIN str : str[k] <= 127

\* C27: a part labelled Content-Transfer-Encoding: 7bit holds characters up
\* to 127 only.
C27_SevenBitParts ==
    emlPc = "done" =>
        \A k \in DOMAIN eml : InSevenBitPart(eml, k) => AsciiOnly(eml[k].codes)

\* The same for messages with an ASCII subject whose embedded documents
\* are ASCII.
C27_SevenBitOfAscii ==
    (emlPc = "done" /\ AsciiOnly(parsed.subject)
        /\ \A k \in DOMAIN parsed.attachments : AsciiOnly(parsed.attachments[k].content)) =>
        \A k \in DOMAIN eml : InSevenBitPart(eml, k) => AsciiOnly(eml[k].codes)

\* The calendar part of a message holds its subject as it is.
C27_CalendarOfAccent ==
    /\ emlPc = "done" /\ HasCalendar(parsed) /\ parsed.subject = <<233>>
    /\ \E k \in DOMAIN eml :
           InSevenBitPart(eml, k) /\ eml[k].codes = SummaryPrefix \o <<233>>

-----------------------------------------------------------------------------
(* Quoted-printable bodies: content.ts 5-9, parts.ts 5-21 *)

\* Pieces of body text: letters, "=", a tab, a line end, a bare LF, e-acute
\* and a CJK character.
QpPieces == {<<72>>, <<EQ>>, <<TAB>>, <<SP>>, <<CR, LF>>, <<LF>>, <<233>>, <<26085>>}

MaxQpPieces == 3

QpTexts == {Flatten(ps) : ps \in UNION {[1..n -> QpPieces] : n \in 0..MaxQpPieces}}

\* generateTextPart and generateHtmlPart run on the variables of the encoder:
\* text is the body, encWords the part without its content, encResult the
\* encoded content.
QpInit ==
    /\ text \in QpTexts
    /\ encI = 0 /\ encWords = <<>> /\ encPc = "body" /\ encResult = <<>>

\* parts.ts 6-9 and 15-18: the three lines before the content
QpWriteLabel ==
    /\ encPc = "body"
    /\ \E subtype \in {"Content-Type: text/plain; charset=\"utf-8\"",
                       "Content-Type: text/html; charset=\"utf-8\""} :
           encWords' = <<Line(subtype), Line("Content-Transfer-Encoding: quoted-printable"),
                         BlankLine>>
    /\ encPc' = "labelled"
    /\ UNCHANGED <<text, encI, encResult>>
    /\ UNCHANGED <<foldVars, emlVars, parseVars>>
    /\ UNCHANGED clientVars

\* parts.ts 10 and 19: part += encodeQuotedPrintable(body)
QpEncode ==
    /\ encPc = "labelled"
    /\ encResult' = EncodeQuotedPrintable(text)
    /\ encPc' = "encoded"
    /\ UNCHANGED <<text, encI, encWords>>
    /\ UNCHANGED <<foldVars, emlVars, parseVars>>
    /\ UNCHANGED clientVars

QpNext == QpWriteLabel \/ QpEncode
InitQp == QpInit /\ FoldIdle /\ EmlIdle /\ ParseIdle /\ ClientIdle
SpecQp == InitQp /\ [][QpNext]_vars

IsHexDigit(c) == HexDigitValue(c) >= 0

\* The bytes that quoted-printable text stands for: "=" and two hexadecimal
\* digits are one byte, "=" and CRLF nothing, any other character itself.
RECURSIVE QpDecode(_, _)
QpDecode(str, k) ==
    IF k > Len(str) THEN <<>>
    ELSE IF str[k] = EQ /\ k + 2 <= Len(str) /\ IsHexDigit(str[k + 1]) /\ IsHexDigit(str[k + 2])
    THEN <<16 * HexDigitValue(str[k + 1]) + HexDigitValue(str[k + 2])>> \o QpDecode(str, k + 3)
    ELSE IF str[k] = EQ /\ k + 2 <= Len(str) /\ str[k + 1] = CR /\ str[k + 2] = LF
    THEN QpDecode(str, k + 3)
    ELSE <<str[k] % 256>> \o QpDecode(str, k + 1)

\* Every "=" is followed by two hexadecimal digits.
EscapesWellFormed(str) ==
    \A k \in DOMAIN str :
        str[k] = EQ => (k + 2 <= Len(str) /\ IsHexDigit(str[k + 1]) /\ IsHexDigit(str[k + 2]))

PrintableOrCrLf(str) ==
    /\ \A k \in DOMAIN str : (str[k] >= 32 /\ str[k] <= 126) \/ str[k] \in {CR, LF}
    /\ CrLfOnly(str)

\* C28: the encoded content is printable ASCII and CRLF only, every escape
\* is "=" and two hexadecimal digits, and the bytes it stands for, read as
\* UTF-8, are the body.
C28_QuotedPrintableRoundTrip ==
    encPc = "encoded" =>
        /\ PrintableOrCrLf(encResult)
        /\ EscapesWellFormed(encResult)
        /\ Utf8Decode(QpDecode(encResult, 1)) = text

\* The same for ASCII bodies whose line ends are CRLF.
C28_AsciiRoundTrip ==
    (encPc = "encoded" /\ AsciiOnly(text) /\ CrLfOnly(text)) =>
        /\ PrintableOrCrLf(encResult)
        /\ EscapesWellFormed(encResult)
        /\ Utf8Decode(QpDecode(encResult, 1)) = text

\* Whatever the body, the content holds no character outside ASCII and its
\* escapes are well formed.
C28_AsciiOutput ==
    encPc = "encoded" => (AsciiOnly(encResult) /\ EscapesWellFormed(encResult))

-----------------------------------------------------------------------------
(* Header lines made of values of the message: eml.ts 36-77, headers.ts 10-21,
   filename.ts 44-57, parts.ts 59-71 *)

\* CRLF "X: y", a header line of its own
InjectedLine == <<CR, LF, 88, COLON, SP, 121>>
\* CRLF CRLF "B", the end of a header section
InjectedBlank == <<CR, LF, CR, LF, 66>>

InjectAttachments ==
    { Attachment(PngName, <<137, 80, 78, 71>>, "image/png", Undefined),
      Attachment(PngName, <<137, 80, 78, 71>>, "image/png", <<105, 49, GT>> \o InjectedLine),
      Attachment(<<112, QUOTE>> \o InjectedLine, <<137, 80, 78, 71>>, "image/png", Undefined) }

InjectMsgs ==
    [subject : {<<83>>, <<83>> \o InjectedLine, <<83>> \o InjectedBlank},
     from : {AddressA}, sender : {Undefined},
     recipients : {<<>>, <<Recipient(<<66, QUOTE>> \o InjectedLine, AddressB, "to")>>},
     date : {"deliveryTime"}, body : {<<72, 105>>},
     bodyHtml : {Undefined, <<60, 98, 62>>},
     attachments : UNION {[1..n -> InjectAttachments] : n \in 0..MaxAttachments},
     headers : {NoHeaders, [NoHeaderFields EXCEPT !.messageId = MessageIdText \o InjectedLine]},
     calendarEvent : EmlCalendarInputs]

InjectInit == parsed \in InjectMsgs /\ eml = <<>> /\ emlPc = "start"
InitInject == InjectInit /\ FoldIdle /\ EncIdle /\ ParseIdle /\ ClientIdle
SpecInject == InitInject /\ [][EmlNext]_vars

\* Piece k stands in a header section: that of the document, or that of a
\* part, which starts after a boundary line; a blank line ends it.
InHeaderSection(pieces, k) ==
    /\ pieces[k].kind \notin {"delimiter", "close"}
    /\ pieces[k] # BlankLine
    /\ \A j \in 1..(k - 1) :
           pieces[j] = BlankLine => \E i \in (j + 1)..(k - 1) : pieces[i].kind = "delimiter"

\* The text holds no line end other than a fold (CRLF and a space or tab).
OneHeaderLine(str) ==
    \A k \in DOMAIN str :
        str[k] = CR /\ k < Len(str) /\ str[k + 1] = LF =>
            (k + 2 <= Len(str) /\ str[k + 2] \in {SP, TAB})

NoLineEnd(str) == \A k \in DOMAIN str : str[k] \notin {CR, LF}

\* The values of the message that header lines are made of have no CR and
\* no LF.
ValuesOnOneLine(p) ==
    /\ NoLineEnd(p.subject)
    /\ \A k \in DOMAIN p.recipients : NoLineEnd(p.recipients[k].name)
    /\ \A k \in DOMAIN p.attachments :
           NoLineEnd(p.attachments[k].fileName) /\ NoLineEnd(p.attachments[k].contentId)
    /\ p.headers.defined => NoLineEnd(p.headers.messageId)

\* C29: every piece that the converter writes into a header section is one
\* header line there, whatever the values of the message hold: none adds a
\* line and none ends the section.
C29_NoHeaderInjection ==
    emlPc = "done" =>
        \A k \in DOMAIN eml : InHeaderSection(eml, k) => OneHeaderLine(eml[k].codes)

\* The same for messages whose values hold no CR and no LF (double quotes
\* they may hold).
C29_NoInjectionOnOneLine ==
    (emlPc = "done" /\ ValuesOnOneLine(parsed)) =>
        \A k \in DOMAIN eml : InHeaderSection(eml, k) => OneHeaderLine(eml[k].codes)

-----------------------------------------------------------------------------
(* The browser client, MsgToEmlConverter: README.md 112-363.
   A file is its name. A call of convertFiles is a run; between its awaits
   the page handles drops, clicks on a remove button and clicks on the
   convert button. *)

\* a.msg, b.MSG, c.txt
ClientFiles == {<<97>> \o DotMsg, <<98, 46, 77, 83, 71>>, <<99, 46, 116, 120, 116>>}

MaxDropped == 2
MaxSelected == 2
MaxRuns == 2

DroppedLists == UNION {[1..n -> ClientFiles] : n \in 1..MaxDropped}

\* README.md 174: f.name.toLowerCase().endsWith(".msg")
IsMsgFile(name) == EndsWith(ToLowerCase(name), DotMsg)

\* README.md 282-288: file.name.replace(/\.msg$/i, ".eml")
ConversionResult(name) ==
    [fileName |-> IF IsMsgFile(name) THEN SubSeq(name, 1, Len(name) - 4) \o DotEml ELSE name,
     success |-> TRUE]

\* README.md 233-237
ConversionError(name) == [fileName |-> name, success |-> FALSE]

\* The markup of the page is not part of the sources: the convert button is
\* disabled or not when the page is loaded.
ClientInit ==
    /\ selectedFiles = <<>> /\ results = <<>>
    /\ convertBtnDisabled \in BOOLEAN
    /\ fileListShows = "nothing" /\ runs = <<>>

\* A run that is waiting for its request has seen the page change.
Disturbed(rs) ==
    [k \in DOMAIN rs |->
        IF rs[k].phase = "awaiting" THEN [rs[k] EXCEPT !.disturbed = TRUE] ELSE rs[k]]

\* README.md 173-184, on drop and on change of the file input
AddFiles ==
    \E files \in DroppedLists :
        /\ Len(selectedFiles) + Len(files) <= MaxSelected
        /\ IF SelectSeq(files, IsMsgFile) = <<>>
           THEN UNCHANGED clientVars
           ELSE /\ selectedFiles' = selectedFiles \o SelectSeq(files, IsMsgFile)
                /\ results' = <<>>
                /\ fileListShows' = "files"
                /\ convertBtnDisabled' = FALSE
                /\ runs' = Disturbed(runs)
        /\ UNCHANGED <<foldVars, encVars, emlVars, parseVars>>

\* README.md 207-215: the click on the remove button of file number index
RemoveFile ==
    \E index \in DOMAIN selectedFiles :
        /\ fileListShows = "files"
        /\ selectedFiles' = SubSeq(selectedFiles, 1, index - 1)
                            \o SubSeq(selectedFiles, index + 1, Len(selectedFiles))
        /\ fileListShows' = IF Len(selectedFiles) = 1 THEN "nothing" ELSE "files"
        /\ convertBtnDisabled' = (Len(selectedFiles) = 1)
        /\ runs' = Disturbed(runs)
        /\ UNCHANGED results
        /\ UNCHANGED <<foldVars, encVars, emlVars, parseVars>>

\* A run that waits for the request of the file at index (counted from 1).
RunAwaiting(index, started, disturbed) ==
    [phase |-> "awaiting", index |-> index, file |-> selectedFiles[index],
     started |-> started, disturbed |-> disturbed, shown |-> <<>>]

\* A run after showResults: shown is the list that it put on the page.
RunFinished(run, shown) ==
    [run EXCEPT !.phase = "finished", !.shown = shown]

\* README.md 161-163, 223-228: a click on the enabled convert button, up to
\* the first await; with no file selected the call ends at once (239-254).
ConvertClick ==
    /\ ~convertBtnDisabled
    /\ Len(runs) < MaxRuns
    /\ results' = <<>>
    /\ IF selectedFiles = <<>>
       THEN /\ runs' = Append(runs, [phase |-> "finished", index |-> 0, file |-> <<>>,
                                     started |-> <<>>, disturbed |-> FALSE, shown |-> <<>>])
            /\ convertBtnDisabled' = TRUE
            /\ fileListShows' = "results"
       ELSE /\ runs' = Append(Disturbed(runs),
                              RunAwaiting(1, selectedFiles,
                                          \E k \in DOMAIN runs : runs[k].phase = "awaiting"))
            /\ convertBtnDisabled' = TRUE
            /\ UNCHANGED fileListShows
    /\ UNCHANGED selectedFiles
    /\ UNCHANGED <<foldVars, encVars, emlVars, parseVars>>

\* README.md 228-254: the request of run r settles, its outcome is pushed,
\* and the loop takes the next file or the call ends with updateButtons and
\* showResults.
RequestSettles ==
    \E r \in DOMAIN runs, ok \in BOOLEAN :
        /\ runs[r].phase = "awaiting"
        /\ results' = Append(results, IF ok THEN ConversionResult(runs[r].file)
                                      ELSE ConversionError(runs[r].file))
        /\ IF runs[r].index < Len(selectedFiles)
           THEN /\ runs' = [runs EXCEPT ![r] = RunAwaiting(runs[r].index + 1, runs[r].started,
                                                           runs[r].disturbed)]
                /\ UNCHANGED <<convertBtnDisabled, fileListShows>>
           ELSE /\ runs' = [runs EXCEPT ![r] = RunFinished(runs[r], results')]
                /\ convertBtnDisabled' = (selectedFiles = <<>>)
                /\ fileListShows' = "results"
        /\ UNCHANGED selectedFiles
        /\ UNCHANGED <<foldVars, encVars, emlVars, parseVars>>

ClientNext == AddFiles \/ RemoveFile \/ ConvertClick \/ RequestSettles
InitClient == ClientInit /\ FoldIdle /\ EncIdle /\ EmlIdle /\ ParseIdle
SpecClient == InitClient /\ [][ClientNext]_vars

RunsInProgress == {k \in DOMAIN runs : runs[k].phase = "awaiting"}

\* The list has one outcome for each file, in the order of the files.
OutcomePerFile(outcomes, files) ==
    /\ Len(outcomes) = Len(files)
    /\ \A k \in DOMAIN files :
           outcomes[k] \in {ConversionResult(files[k]), ConversionError(files[k])}

\* C30: at most one run is in progress, and the results list of a run that
\* has finished holds one outcome, success or error, for each file that was
\* selected when the run began, in the order of the selection.
C30_OneRunOneOutcomePerFile ==
    /\ Cardinality(RunsInProgress) <= 1
    /\ \A k \in DOMAIN runs :
           runs[k].phase = "finished" => OutcomePerFile(runs[k].shown, runs[k].started)

\* The same while no file is added or removed during a run.
C30_UndisturbedRuns ==
    (\A k \in DOMAIN runs : ~runs[k].disturbed) =>
        /\ Cardinality(RunsInProgress) <= 1
        /\ \A k \in DOMAIN runs :
               runs[k].phase = "finished" => OutcomePerFile(runs[k].shown, runs[k].started)

\* Two runs are in progress.
C30_TwoRuns == Cardinality(RunsInProgress) = 2

\* A run that no event disturbed has finished with a failure followed by a
\* success.
C30_FailureThenSuccess ==
    \E k \in DOMAIN runs :
        /\ runs[k].phase = "finished" /\ ~runs[k].disturbed
        /\ Len(runs[k].shown) >= 2
        /\ ~runs[k].shown[1].success /\ runs[k].shown[2].success

=============================================================================
